---- MODULE Spec2Model ----
(***************************************************************************)
(* Fetch orchestration engine of the StockData service                     *)
(* (internal/service: DataFetcher and TushareClient).                      *)
(*                                                                         *)
(* Calendar dates are the naturals YYYYMMDD: for eight-digit date strings  *)
(* the lexicographic order used by sort.Strings and by the string          *)
(* comparison in generateMonthEndDates is the numeric order.               *)
(***************************************************************************)
EXTENDS Integers, Sequences, FiniteSets, TLC

(***************************************************************************)
(* Bounds of the model.                                                    *)
(***************************************************************************)
\* the date resolvers get ranges of up to MaxSpan days after their start
MaxSpan == 3
\* the range of a job is [BaseDate, BaseDate + MaxDays days]
MaxDays == 2
\* config.Fetcher.Concurrency ranges over 1..MaxConcurrency
MaxConcurrency == 2
\* number of rows of stock_basic read by the legacy per-instrument mode
MaxStocks == 1
\* TushareClient.retry ranges over 0..MaxRetry
MaxRetry == 3
\* a provider table has up to MaxCols columns and MaxRows rows
MaxCols == 2

MaxRows == 2
\* a batch insert gets up to MaxRecords records
MaxRecords == 3
\* config.Fetcher.BatchSize ranges over 1..MaxBatch
MaxBatch == 2
\* up to MaxStarts jobs are started
MaxStarts == 2

\* Thursday 30 November 2023: the range starting here crosses a month end,
\* contains Friday 20231201 and runs into the weekend after it
BaseDate == 2023 * 10000 + 11 * 100 + 30

(***************************************************************************)
(* Calendar arithmetic of Go's time package, as used by the resolvers.     *)
(***************************************************************************)
Year(d) == d \div 10000

Month(d) == (d \div 100) % 100

Day(d) == d % 100

Ymd(y, m, d) == y * 10000 + m * 100 + d

IsLeap(y) == (y % 4 = 0) /\ ((y % 100 # 0) \/ (y % 400 = 0))

DaysInMonth(y, m) ==
    IF m = 2 THEN (IF IsLeap(y) THEN 29 ELSE 28)
    ELSE IF m \in {4, 6, 9, 11} THEN 30 ELSE 31

\* days of the year before the first of month m
DaysBefore(y, m) ==
    <<0, 31, 59, 90, 120, 151, 181, 212, 243, 273, 304, 334>>[m]
      + (IF m > 2 /\ IsLeap(y) THEN 1 ELSE 0)

\* days elapsed since 0001-01-01 (a Monday)
DayNumber(d) ==
    LET y == Year(d) - 1
    IN  365 * y + (y \div 4) - (y \div 100) + (y \div 400)
          + DaysBefore(Year(d), Month(d)) + Day(d) - 1

\* time.Weekday: Sunday = 0 ... Saturday = 6
Weekday(d) == (DayNumber(d) + 1) % 7

Saturday == 6

Sunday == 0

NextDay(d) ==
    IF Day(d) < DaysInMonth(Year(d), Month(d)) THEN d + 1
    ELSE IF Month(d) < 12 THEN Ymd(Year(d), Month(d) + 1, 1)
    ELSE Ymd(Year(d) + 1, 1, 1)

PrevDay(d) ==
    IF Day(d) > 1 THEN d - 1
    ELSE IF Month(d) > 1
         THEN Ymd(Year(d), Month(d) - 1, DaysInMonth(Year(d), Month(d) - 1))
    ELSE Ymd(Year(d) - 1, 12, 31)

\* t.AddDate(0, 0, k)
RECURSIVE AddDays(_, _)
AddDays(d, k) ==
    IF k = 0 THEN d
    ELSE IF k > 0 THEN AddDays(NextDay(d), k - 1)
    ELSE AddDays(PrevDay(d), k + 1)

\* time.Date(y, m, 1).AddDate(0, 1, 0) for a first-of-month date
NextMonthStart(d) ==
    IF Month(d) < 12 THEN Ymd(Year(d), Month(d) + 1, 1)
    ELSE Ymd(Year(d) + 1, 1, 1)

\* time.Date(t.Year(), t.Month(), 1, ...)
MonthStart(d) == Ymd(Year(d), Month(d), 1)

\* variant: the calendar year and the week counted from 1 January
ISOWeek_OfYear(d) ==
    <<Year(d), ((DaysBefore(Year(d), Month(d)) + Day(d) - 1) \div 7) + 1>>

\* t.ISOWeek(): the year and week of the Thursday of t's week
ISOWeek(d) ==
    LET delta == IF 4 - Weekday(d) = 4 THEN -3 ELSE 4 - Weekday(d)
        thu   == AddDays(d, delta)
        yday  == DaysBefore(Year(thu), Month(thu)) + Day(thu) - 1
    IN  <<Year(thu), (yday \div 7) + 1>>

\* cal.CalDate[:6] and current.Format("200601")
YearMonth(d) == d \div 100

(***************************************************************************)
(* Sequence helpers.                                                       *)
(***************************************************************************)
RECURSIVE InsertSorted(_, _)
InsertSorted(x, s) ==
    IF s = <<>> THEN <<x>>
    ELSE IF x <= Head(s) THEN <<x>> \o s
    ELSE <<Head(s)>> \o InsertSorted(x, Tail(s))

RECURSIVE SortStrings(_)
\* sort.Strings: ascending, duplicates kept
SortStrings(s) ==
    IF s = <<>> THEN <<>> ELSE InsertSorted(Head(s), SortStrings(Tail(s)))

Range(s) == {s[i] : i \in 1..Len(s)}

(***************************************************************************)
(* Trading calendar resolver.  A calendar response is a sequence of        *)
(* TradeCal records [cal_date, is_open]; the result of GetTradeCal is the  *)
(* pair [err, rows] of its error and its record list.                      *)
(***************************************************************************)
CalError == [err |-> TRUE, rows |-> <<>>]

CalOk(rows) == [err |-> FALSE, rows |-> rows]

RECURSIVE OpenDates(_)
\* the loop of getTradeDates: keep cal_date of the entries with IsOpen == 1
OpenDates(calData) ==
    IF calData = <<>> THEN <<>>
    ELSE (IF Head(calData).is_open = 1 THEN <<Head(calData).cal_date>> ELSE <<>>)
           \o OpenDates(Tail(calData))

getTradeDates(calData) == SortStrings(OpenDates(calData))

RECURSIVE WeekdaysFrom(_, _)
\* for d := start; !d.After(end); d = d.AddDate(0, 0, 1), weekdays only
WeekdaysFrom(d, end) ==
    IF d > end THEN <<>>
    ELSE (IF Weekday(d) # Saturday /\ Weekday(d) # Sunday THEN <<d>> ELSE <<>>)
           \o WeekdaysFrom(NextDay(d), end)

\* variant: every day of the range, weekends included
generateDateRangeFallback_AllDays(startDate, endDate) ==
    [i \in 1..(DayNumber(endDate) - DayNumber(startDate) + 1) |->
       AddDays(startDate, i - 1)]

generateDateRangeFallback(startDate, endDate) == WeekdaysFrom(startDate, endDate)

generateDateRange(startDate, endDate, cal) ==
    IF cal.err THEN generateDateRangeFallback(startDate, endDate)
    ELSE getTradeDates(cal.rows)

generateWeekDateRangeFallback(startDate, endDate) == WeekdaysFrom(startDate, endDate)

RECURSIVE WeekLoop(_, _, _, _)
\* the grouping loop of generateWeekDateRange over the remaining dates
WeekLoop(ds, currentWeek, lastDateOfWeek, weekEndDates) ==
    IF ds = <<>> THEN Append(weekEndDates, lastDateOfWeek)
    ELSE IF ISOWeek(Head(ds)) # currentWeek
         THEN WeekLoop(Tail(ds), ISOWeek(Head(ds)), Head(ds),
                       Append(weekEndDates, lastDateOfWeek))
         ELSE WeekLoop(Tail(ds), currentWeek, Head(ds), weekEndDates)

generateWeekDateRange(startDate, endDate, cal) ==
    IF cal.err THEN generateWeekDateRangeFallback(startDate, endDate)
    ELSE LET dates == getTradeDates(cal.rows)
         IN  IF dates = <<>> THEN <<>>
             ELSE WeekLoop(dates, ISOWeek(dates[1]), dates[1], <<>>)

RECURSIVE MonthFallbackLoop(_, _, _)
\* the loop of generateMonthEndDatesFallback from the month start `current`
MonthFallbackLoop(current, start, end) ==
    IF current > end THEN <<>>
    ELSE LET last     == AddDays(NextMonthStart(current), -1)
             capped   == IF last > end THEN end ELSE last
             monthEnd == IF Weekday(capped) = Saturday THEN AddDays(capped, -1)
                         ELSE IF Weekday(capped) = Sunday THEN AddDays(capped, -2)
                         ELSE capped
         IN  (IF monthEnd >= start THEN <<monthEnd>> ELSE <<>>)
               \o MonthFallbackLoop(NextMonthStart(current), start, end)

generateMonthEndDatesFallback(startDate, endDate) ==
    MonthFallbackLoop(MonthStart(startDate), startDate, endDate)

\* monthlyLastTrade: the largest open cal_date of each YYYYMM key
MonthlyLastTrade(calData) ==
    LET open == Range(OpenDates(calData))
    IN  [ym \in {YearMonth(d) : d \in open} |->
           CHOOSE d \in open : YearMonth(d) = ym
                               /\ \A e \in open : YearMonth(e) = ym => e <= d]

RECURSIVE MonthLoop(_, _, _)
\* the month-by-month loop of generateMonthEndDates
MonthLoop(current, end, last) ==
    IF current > end THEN <<>>
    ELSE (IF YearMonth(current) \in DOMAIN last
          THEN <<last[YearMonth(current)]>> ELSE <<>>)
           \o MonthLoop(NextMonthStart(current), end, last)

generateMonthEndDates(startDate, endDate, cal) ==
    IF cal.err \/ cal.rows = <<>>
    THEN generateMonthEndDatesFallback(startDate, endDate)
    ELSE MonthLoop(MonthStart(startDate), endDate, MonthlyLastTrade(cal.rows))

(***************************************************************************)
(* Calendar responses the provider may give for a range: the days of the   *)
(* range, newest first, a set of weekdays flagged open; the provider       *)
(* either honours the is_open filter (open rows only) or returns every     *)
(* day with its flag.                                                      *)
(***************************************************************************)
RECURSIVE DaysDesc(_, _)
DaysDesc(start, d) ==
    IF d < start THEN <<>> ELSE <<d>> \o DaysDesc(start, PrevDay(d))

RECURSIVE CalRows(_, _, _)
CalRows(days, open, filtered) ==
    IF days = <<>> THEN <<>>
    ELSE (IF Head(days) \in open
          THEN <<[cal_date |-> Head(days), is_open |-> 1]>>
          ELSE IF filtered THEN <<>>
          ELSE <<[cal_date |-> Head(days), is_open |-> 0]>>)
           \o CalRows(Tail(days), open, filtered)

CalResponses(start, end) ==
    {CalError} \cup
    {CalOk(CalRows(DaysDesc(start, end), open, filtered)) :
        open \in SUBSET Range(WeekdaysFrom(start, end)), filtered \in BOOLEAN}

(***************************************************************************)
(* State of one fetch job.                                                 *)
(*   mode         entry point called: FetchDailyData ("legacy"),           *)
(*                FetchDailyDataOptimized ("daily"), FetchWeeklyData,      *)
(*                FetchMonthlyData                                         *)
(*   concurrency  config.Fetcher.Concurrency                               *)
(*   pc           position of the orchestrating function                   *)
(*   row          the fetch_tasks row of the job                           *)
(*   stocks       number of instruments loaded by the legacy mode          *)
(*   dates        the resolved date list                                   *)
(*   units        one record per unit of work (closure passed to g.Go or   *)
(*                to go func), with its position and locals                *)
(*   successCount, failedCount   the shared atomic counters                *)
(*   tick         a tick is buffered in rateLimiter.C                      *)
(*   cancelled    the job context is done                                  *)
(*   updateCalls  number of calls of updateTaskProgress so far (history)   *)
(*   callerCancelled  the context passed by the caller is done; the job    *)
(*                context `cancelled` is derived from it by                *)
(*                errgroup.WithContext                                     *)
(*   ticksSent    ticks the ticker has put on rateLimiter.C (history; a    *)
(*                tick dropped at the full channel is not counted)         *)
(*   calCalls     calls of GetTradeCal so far (history)                    *)
(*   lateCalls    data calls started while the job context was done        *)
(*                (history)                                                *)
(***************************************************************************)
VARIABLES mode, concurrency, pc, row, stocks, dates, units,
          successCount, failedCount, tick, cancelled, updateCalls,
          callerCancelled, ticksSent, calCalls, lateCalls

jobVars == <<mode, concurrency, pc, row, stocks, dates, units,
             successCount, failedCount, tick, cancelled, updateCalls,
             callerCancelled, ticksSent, calCalls, lateCalls>>

(***************************************************************************)
(* State of one call of TushareClient.request and of one call of           *)
(* parseDailyData.                                                         *)
(*   retry     TushareClient.retry                                         *)
(*   req       the locals of request: its position, the loop variable i,   *)
(*             resp and lastErr                                            *)
(*   attempts  the results of the calls of doRequest so far (history)      *)
(*   sleeps    the durations of the calls of time.Sleep so far, in         *)
(*             seconds (history)                                           *)
(*   result    what request returned                                       *)
(*   data      the TushareData handed to parseDailyData                    *)
(*   parsed    what parseDailyData returned                                *)
(***************************************************************************)
VARIABLES retry, req, attempts, sleeps, result, data, parsed

clientVars == <<retry, req, attempts, sleeps, result, data, parsed>>

(***************************************************************************)
(* State of one call of a date resolver and of one call of a batch insert. *)
(*   rng       the range [start, end] handed to the resolver               *)
(*   calendar  the result [err, rows] of its call of GetTradeCal           *)
(*   resolved  what the resolver returned, and which resolver it was       *)
(*   input     the provider records handed to the batch insert             *)
(*   batch     the batch insert: its table, config.Fetcher.BatchSize, the  *)
(*             loop variable i and what it returned                        *)
(*   inserts   the calls of CreateInBatches so far (history): the slice    *)
(*             input[from..to] of each chunk and the rows handed over      *)
(***************************************************************************)
VARIABLES rng, calendar, resolved, input, batch, inserts

resolverVars == <<rng, calendar, resolved>>

batchVars == <<input, batch, inserts>>

(***************************************************************************)
(* State of the start of the process and of the HTTP starts of jobs.       *)
(*   cfg       the configuration read by LoadConfig, and whether           *)
(*             validateConfig accepted it                                  *)
(*   fetcher   what NewDataFetcher made of it                              *)
(*   clock     the last reading of time.Now().Unix()                       *)
(*   tasks     the rows of fetch_tasks, in the order of their creation     *)
(*   starts    the starts of jobs: the handler that answers the request    *)
(*             and the goroutine that runs the entry point                 *)
(***************************************************************************)
VARIABLES cfg, fetcher, clock, tasks, starts

configVars == <<cfg, fetcher>>

startVars == <<clock, tasks, starts>>

fnVars == <<resolverVars, batchVars, configVars, startVars>>

vars == <<jobVars, clientVars, fnVars>>

\* no resolver has been called
NotResolved == [done |-> FALSE, kind |-> "", dates |-> <<>>]

\* no call of a resolver is in progress
ResolverIdle ==
    /\ rng = [start |-> 0, end |-> 0]
    /\ calendar = [err |-> FALSE, rows |-> <<>>]
    /\ resolved = NotResolved

\* no call of a batch insert is in progress
BatchIdle ==
    /\ input = <<>>
    /\ batch = [kind |-> "", size |-> 1, i |-> 0, ret |-> "off"]
    /\ inserts = <<>>

\* a rate limit: n, or n more than the nanoseconds of a minute
Rate(n) == [over |-> FALSE, n |-> n]

\* NewDataFetcher has not been called
NoFetcher ==
    [built |-> FALSE, panic |-> "",
     interval |-> [sign |-> 0, sixty |-> 0, units |-> 0]]

\* the process is not starting
ConfigIdle ==
    /\ cfg = [token |-> "", dbType |-> "", concurrency |-> 0, batchSize |-> 0,
              rateLimit |-> Rate(0), valid |-> "off"]
    /\ fetcher = NoFetcher

\* no job is started over HTTP
StartIdle ==
    /\ clock = 0
    /\ tasks = <<>>
    /\ starts = <<>>

\* a nil error
NoErr == [kind |-> "nil", msg |-> ""]

\* a nil *TushareResponse
NilResp == [nil |-> TRUE, code |-> 0, msg |-> "", data |-> "null"]

\* request has not returned
NoResult == [returned |-> FALSE, data |-> "nil", err |-> NoErr, panic |-> FALSE]

\* no call of request is in progress
RequestIdle ==
    /\ retry = 0
    /\ req = [pc |-> "off", i |-> 0, resp |-> NilResp, lastErr |-> NoErr]
    /\ attempts = <<>>
    /\ sleeps = <<>>
    /\ result = NoResult

\* parseDailyData has not been called
NotParsed == [done |-> FALSE, records |-> <<>>, err |-> FALSE]

\* no call of parseDailyData is in progress
ParseIdle ==
    /\ data = [fields |-> <<>>, items |-> <<>>]
    /\ parsed = NotParsed

Modes == {"legacy", "daily", "weekly", "monthly"}

\* the request: start_date and end_date
startDate == BaseDate

endDate == AddDays(BaseDate, MaxDays)

\* models.FetchTask, the columns the orchestration writes
NoRow ==
    [exists |-> FALSE, task_id |-> "", status |-> "", progress |-> 0,
     total_count |-> 0, success_count |-> 0, failed_count |-> 0,
     end_time |-> FALSE]

\* the prefix of TaskID; the suffix is the clock second of the start
TaskPrefix(m) ==
    IF m = "weekly" THEN "weekly_task_"
    ELSE IF m = "monthly" THEN "monthly_task_" ELSE "task_"

\* a unit that has not been handed to g.Go / go func yet
\* (history fields: calls, the data calls the unit has started; err, its
\* data call or its batch insert returned an error; incS and incF, its
\* increments of successCount and of failedCount)
NewUnit ==
    [pc |-> "idle", prog |-> 0, lS |-> 0, lF |-> 0, rS |-> 0, rF |-> 0,
     calls |-> 0, err |-> FALSE, incS |-> 0, incF |-> 0]

\* a unit that returned: its locals are dead
Returned == [NewUnit EXCEPT !.pc = "done"]

\* the unit un after its return
ReturnOf(un) ==
    [Returned EXCEPT !.calls = un.calls, !.err = un.err,
                     !.incS = un.incS, !.incF = un.incF]

UnitIds == DOMAIN units

\* task.TotalCount / totalTasks / len(dates)
TotalCount == IF mode = "legacy" THEN stocks * Len(dates) ELSE Len(dates)

\* units handed to the group and not yet returned
Active == {u \in UnitIds : units[u].pc \notin {"idle", "done"}}

\* units that hold a slot of the admission gate: every active unit of an
\* errgroup, the units past `semaphore <- struct{}{}` in the legacy mode
Admitted == {u \in Active : units[u].pc # "sem"}

\* the modulus of the legacy mode's progress report
ProgressEvery == 100

Init ==
    /\ mode \in Modes
    /\ concurrency \in 1..MaxConcurrency
    /\ pc = "start"
    /\ row = NoRow
    /\ stocks = 0
    /\ dates = <<>>
    /\ units = <<>>
    /\ successCount = 0
    /\ failedCount = 0
    /\ tick = FALSE
    /\ cancelled = FALSE
    /\ updateCalls = 0
    /\ callerCancelled = FALSE
    /\ ticksSent = 0
    /\ calCalls = 0
    /\ lateCalls = 0
    /\ RequestIdle
    /\ ParseIdle
    /\ ResolverIdle
    /\ BatchIdle
    /\ ConfigIdle
    /\ StartIdle

(***************************************************************************)
(* The orchestrating function.                                             *)
(***************************************************************************)
\* f.db.Create(task) succeeds: the row exists with Status "running"
CreateTask ==
    /\ pc = "start"
    /\ row' = [NoRow EXCEPT !.exists = TRUE, !.task_id = TaskPrefix(mode),
                            !.status = "running"]
    /\ pc' = IF mode = "legacy" THEN "stocks" ELSE "resolve"
    /\ UNCHANGED <<mode, concurrency, stocks, dates, units,
                   successCount, failedCount, tick, cancelled, updateCalls>>
    /\ UNCHANGED <<callerCancelled, ticksSent, calCalls, lateCalls>>
    /\ UNCHANGED clientVars
    /\ UNCHANGED fnVars

\* variant: the error of f.db.Create(task) is ignored
AfterCreateError_Continue(m) == IF m = "legacy" THEN "stocks" ELSE "resolve"

\* if err := f.db.Create(task).Error; err != nil { return nil, ... }
AfterCreateError(m) == "error"

\* f.db.Create(task) fails: the function returns the error
CreateTaskFails ==
    /\ pc = "start"
    /\ pc' = AfterCreateError(mode)
    /\ UNCHANGED <<mode, concurrency, row, stocks, dates, units,
                   successCount, failedCount, tick, cancelled, updateCalls>>
    /\ UNCHANGED <<callerCancelled, ticksSent, calCalls, lateCalls>>
    /\ UNCHANGED clientVars
    /\ UNCHANGED fnVars

\* legacy mode: f.db.Find(&stocks) returns n instruments
LoadStocks ==
    /\ pc = "stocks"
    /\ \E n \in 0..MaxStocks : stocks' = n
    /\ pc' = "resolve"
    /\ UNCHANGED <<mode, concurrency, row, dates, units,
                   successCount, failedCount, tick, cancelled, updateCalls>>
    /\ UNCHANGED <<callerCancelled, ticksSent, calCalls, lateCalls>>
    /\ UNCHANGED clientVars
    /\ UNCHANGED fnVars

\* legacy mode: f.db.Find(&stocks) fails and the function returns
LoadStocksFails ==
    /\ pc = "stocks"
    /\ pc' = "error"
    /\ UNCHANGED <<mode, concurrency, row, stocks, dates, units,
                   successCount, failedCount, tick, cancelled, updateCalls>>
    /\ UNCHANGED <<callerCancelled, ticksSent, calCalls, lateCalls>>
    /\ UNCHANGED clientVars
    /\ UNCHANGED fnVars

\* the date list of the mode for a calendar outcome
ResolveDates(m, cal) ==
    IF m = "weekly" THEN generateWeekDateRange(startDate, endDate, cal)
    ELSE IF m = "monthly" THEN generateMonthEndDates(startDate, endDate, cal)
    ELSE generateDateRange(startDate, endDate, cal)

\* resolve the date list, task.TotalCount = ..., f.db.Save(task)
ResolveAndSave ==
    /\ pc = "resolve"
    /\ \E cal \in CalResponses(startDate, endDate) :
         LET ds == ResolveDates(mode, cal)
             n  == IF mode = "legacy" THEN stocks * Len(ds) ELSE Len(ds)
         IN  /\ dates' = ds
             /\ units' = [u \in 1..n |-> NewUnit]
             /\ row' = [row EXCEPT !.total_count = n]
    /\ calCalls' = calCalls + 1
    /\ pc' = "dispatch"
    /\ UNCHANGED <<mode, concurrency, stocks,
                   successCount, failedCount, tick, cancelled, updateCalls>>
    /\ UNCHANGED <<callerCancelled, ticksSent, lateCalls>>
    /\ UNCHANGED clientVars
    /\ UNCHANGED fnVars

\* variant: the group has no limit (g.SetLimit omitted)
SpawnAllowed_NoLimit(u) == TRUE

\* g.Go blocks while the group runs `concurrency` units; go func(...) of
\* the legacy mode never blocks
SpawnAllowed(u) ==
    mode = "legacy" \/ Cardinality(Active) < concurrency

\* one iteration of the dispatch loop: g.Go(...), or wg.Add(1); go func(...)
\* in the legacy mode, whose goroutine first waits for the semaphore
Spawn(u) ==
    /\ pc = "dispatch"
    /\ u \in UnitIds
    /\ units[u].pc = "idle"
    /\ \A v \in UnitIds : v < u => units[v].pc # "idle"
    /\ SpawnAllowed(u)
    /\ units' = [units EXCEPT ![u].pc = IF mode = "legacy" THEN "sem" ELSE "check"]
    /\ UNCHANGED <<mode, concurrency, pc, row, stocks, dates,
                   successCount, failedCount, tick, cancelled, updateCalls>>
    /\ UNCHANGED <<callerCancelled, ticksSent, calCalls, lateCalls>>
    /\ UNCHANGED clientVars
    /\ UNCHANGED fnVars

\* the dispatch loop is over: the function blocks in g.Wait() / wg.Wait()
EndDispatch ==
    /\ pc = "dispatch"
    /\ \A u \in UnitIds : units[u].pc # "idle"
    /\ pc' = "wait"
    /\ UNCHANGED <<mode, concurrency, row, stocks, dates, units,
                   successCount, failedCount, tick, cancelled, updateCalls>>
    /\ UNCHANGED <<callerCancelled, ticksSent, calCalls, lateCalls>>
    /\ UNCHANGED clientVars
    /\ UNCHANGED fnVars

\* variant: the orchestrator does not wait for the units
Joined_NoWait == TRUE

\* variant: the join returns while one unit is still running
Joined_ButOne ==
    Cardinality({u \in UnitIds : units[u].pc # "done"}) <= 1

\* g.Wait() / wg.Wait() may return
Joined == \A u \in UnitIds : units[u].pc = "done"

\* Go integer division: a zero divisor panics (the value -1)
Percent(n, total) == IF total = 0 THEN -1 ELSE (n * 100) \div total

\* variant: a job with failures ends in the failed status
FinalStatus_ByFailures(fc) == IF fc > 0 THEN "failed" ELSE "completed"

\* task.Status = "completed"
FinalStatus(fc) == "completed"

\* variant: the final progress is computed from the counters
FinalProgress_Computed(sc, fc, total) == Percent(sc + fc, total)

\* task.Progress = 100
FinalProgress(sc, fc, total) == 100

\* the join returns, then EndTime, Status, Progress, counters,
\* f.db.Save(task).  g.Wait() cancels the context errgroup.WithContext
\* derived for the job when it returns; wg.Wait() of the legacy mode has
\* no context
Finalize ==
    /\ pc = "wait"
    /\ Joined
    /\ cancelled' = (cancelled \/ mode # "legacy")
    /\ LET p == FinalProgress(successCount, failedCount, TotalCount)
       IN  IF p < 0
           THEN pc' = "panic" /\ row' = row
           ELSE /\ pc' = "done"
                /\ row' = [row EXCEPT !.end_time = TRUE,
                                      !.status = FinalStatus(failedCount),
                                      !.progress = p,
                                      !.total_count = TotalCount,
                                      !.success_count = successCount,
                                      !.failed_count = failedCount]
    /\ UNCHANGED <<mode, concurrency, stocks, dates, units,
                   successCount, failedCount, tick, updateCalls>>
    /\ UNCHANGED <<callerCancelled, ticksSent, calCalls, lateCalls>>
    /\ UNCHANGED clientVars
    /\ UNCHANGED fnVars

(***************************************************************************)
(* The units of work.                                                      *)
(***************************************************************************)
\* legacy mode: semaphore <- struct{}{}.  The channel has `concurrency`
\* slots; the send of any waiting goroutine may complete while one is free.
AcquireAllowed(u) == Cardinality(Admitted) < concurrency

UnitAcquire(u) ==
    /\ u \in UnitIds
    /\ units[u].pc = "sem"
    /\ AcquireAllowed(u)
    /\ units' = [units EXCEPT ![u].pc = "tick"]
    /\ UNCHANGED <<mode, concurrency, pc, row, stocks, dates,
                   successCount, failedCount, tick, cancelled, updateCalls>>
    /\ UNCHANGED <<callerCancelled, ticksSent, calCalls, lateCalls>>
    /\ UNCHANGED clientVars
    /\ UNCHANGED fnVars

\* variant: the unit does not look at the job context
CtxDone_Ignored == FALSE

\* case <-ctx.Done()
CtxDone == cancelled

\* errgroup modes: select { case <-ctx.Done(): return ctx.Err(); default: }
UnitCheckCtx(u) ==
    /\ u \in UnitIds
    /\ units[u].pc = "check"
    /\ units' = [units EXCEPT ![u] = IF CtxDone THEN ReturnOf(@)
                                      ELSE [@ EXCEPT !.pc = "tick"]]
    /\ UNCHANGED <<mode, concurrency, pc, row, stocks, dates,
                   successCount, failedCount, tick, cancelled, updateCalls>>
    /\ UNCHANGED <<callerCancelled, ticksSent, calCalls, lateCalls>>
    /\ UNCHANGED clientVars
    /\ UNCHANGED fnVars

\* variant: the unit waits on a ticker of its own
TickReady_Own == TRUE

\* <-f.rateLimiter.C can receive: a tick is buffered in the shared channel
TickReady == tick

\* <-f.rateLimiter.C, then the data call is issued
UnitTakeTick(u) ==
    /\ u \in UnitIds
    /\ units[u].pc = "tick"
    /\ TickReady
    /\ tick' = FALSE
    /\ units' = [units EXCEPT ![u].pc = "fetch", ![u].calls = @ + 1]
    /\ lateCalls' = lateCalls + (IF cancelled THEN 1 ELSE 0)
    /\ UNCHANGED <<mode, concurrency, pc, row, stocks, dates,
                   successCount, failedCount, cancelled, updateCalls>>
    /\ UNCHANGED <<callerCancelled, ticksSent, calCalls>>
    /\ UNCHANGED clientVars
    /\ UNCHANGED fnVars

\* outcomes of the data call: an error after the retries, a response
\* without rows, a response with rows
FetchOutcomes == {"err", "empty", "rows"}

\* the unit after its data call returned with outcome o, and whether the
\* outcome is counted as a success (+1) or failure (-1) at this point
AfterFetch(m, o) ==
    IF o = "rows" THEN [pc |-> "insert", count |-> 0]
    ELSE IF o = "err"
         THEN [pc |-> IF m = "legacy" THEN "loadS" ELSE "done", count |-> -1]
    ELSE IF m = "legacy" THEN [pc |-> "loadS", count |-> 1]
    ELSE IF m = "weekly" THEN [pc |-> "loadS", count |-> 1]
    ELSE [pc |-> "readS", count |-> 0]

\* variant: the closure returns the error of its data call to the group
FetchErrorReturned_Propagated(m, o) == m # "legacy" /\ o = "err"

\* whether the closure returns a non-nil error after its data call: the
\* error branch ends in `return nil`
FetchErrorReturned(m, o) == FALSE

\* GetDailyData / GetWeeklyData / GetMonthlyData returns; the group cancels
\* the job context on the first non-nil error a closure returns
UnitFetchReturn(u) ==
    /\ u \in UnitIds
    /\ units[u].pc = "fetch"
    /\ \E o \in FetchOutcomes :
         LET a == AfterFetch(mode, o)
             c == [units[u] EXCEPT !.err = (o = "err"),
                                   !.incS = @ + (IF a.count = 1 THEN 1 ELSE 0),
                                   !.incF = @ + (IF a.count = -1 THEN 1 ELSE 0)]
         IN  /\ units' = [units EXCEPT ![u] =
                            IF a.pc = "done" THEN ReturnOf(c)
                            ELSE [c EXCEPT !.pc = a.pc]]
             /\ successCount' = successCount + (IF a.count = 1 THEN 1 ELSE 0)
             /\ failedCount' = failedCount + (IF a.count = -1 THEN 1 ELSE 0)
             /\ cancelled' = (cancelled \/ FetchErrorReturned(mode, o))
    /\ UNCHANGED <<mode, concurrency, pc, row, stocks, dates,
                   tick, updateCalls>>
    /\ UNCHANGED <<callerCancelled, ticksSent, calCalls, lateCalls>>
    /\ UNCHANGED clientVars
    /\ UNCHANGED fnVars

\* the position after the batch insert: the by-index modes go straight to
\* the call of updateTaskProgress, the others load the counters first
AfterInsert(m) == IF m \in {"daily", "monthly"} THEN "readS" ELSE "loadS"

\* variant: the success increment is not in an else branch
InsertCounts_Both(ok) ==
    [success |-> 1, failed |-> IF ok THEN 0 ELSE 1]

\* the counter increments after the batch insert returned
InsertCounts(ok) ==
    [success |-> IF ok THEN 1 ELSE 0, failed |-> IF ok THEN 0 ELSE 1]

\* batchInsert*Data returns nil (ok) or the error of a bulk insert
UnitInsertReturn(u) ==
    /\ u \in UnitIds
    /\ units[u].pc = "insert"
    /\ \E ok \in BOOLEAN :
         /\ units' = [units EXCEPT ![u].pc = AfterInsert(mode),
                                   ![u].err = ~ok,
                                   ![u].incS = @ + InsertCounts(ok).success,
                                   ![u].incF = @ + InsertCounts(ok).failed]
         /\ successCount' = successCount + InsertCounts(ok).success
         /\ failedCount' = failedCount + InsertCounts(ok).failed
    /\ UNCHANGED <<mode, concurrency, pc, row, stocks, dates,
                   tick, cancelled, updateCalls>>
    /\ UNCHANGED <<callerCancelled, ticksSent, calCalls, lateCalls>>
    /\ UNCHANGED clientVars
    /\ UNCHANGED fnVars

\* weekly, legacy: atomic.LoadInt64(&successCount)
UnitLoadSuccess(u) ==
    /\ u \in UnitIds
    /\ units[u].pc = "loadS"
    /\ units' = [units EXCEPT ![u].pc = "loadF", ![u].lS = successCount]
    /\ UNCHANGED <<mode, concurrency, pc, row, stocks, dates,
                   successCount, failedCount, tick, cancelled, updateCalls>>
    /\ UNCHANGED <<callerCancelled, ticksSent, calCalls, lateCalls>>
    /\ UNCHANGED clientVars
    /\ UNCHANGED fnVars

\* legacy mode: the progress is reported when total%100 == 0
ReportsProgress(m, total) == m # "legacy" \/ total % ProgressEvery = 0

\* weekly, legacy: + atomic.LoadInt64(&failedCount), progress := total*100/...
UnitLoadFailed(u) ==
    /\ u \in UnitIds
    /\ units[u].pc = "loadF"
    /\ LET total == units[u].lS + failedCount
           p     == Percent(total, TotalCount)
       IN  units' = [units EXCEPT ![u] =
                       IF p < 0 THEN [@ EXCEPT !.pc = "panic"]
                       ELSE IF ReportsProgress(mode, total)
                            THEN [@ EXCEPT !.pc = "readS", !.lF = failedCount,
                                           !.prog = p]
                            ELSE ReturnOf(@)]
    /\ UNCHANGED <<mode, concurrency, pc, row, stocks, dates,
                   successCount, failedCount, tick, cancelled, updateCalls>>
    /\ UNCHANGED <<callerCancelled, ticksSent, calCalls, lateCalls>>
    /\ UNCHANGED clientVars
    /\ UNCHANGED fnVars

\* the progress argument of updateTaskProgress
ProgressArg(m, u, prog) ==
    IF m \in {"daily", "monthly"} THEN Percent(u, Len(dates)) ELSE prog

\* evaluation of the arguments progress and int(successCount)
UnitReadSuccess(u) ==
    /\ u \in UnitIds
    /\ units[u].pc = "readS"
    /\ LET p == ProgressArg(mode, u, units[u].prog)
       IN  units' = [units EXCEPT ![u] =
                       IF p < 0 THEN [@ EXCEPT !.pc = "panic"]
                       ELSE [@ EXCEPT !.pc = "readF", !.prog = p,
                                      !.rS = successCount]]
    /\ UNCHANGED <<mode, concurrency, pc, row, stocks, dates,
                   successCount, failedCount, tick, cancelled, updateCalls>>
    /\ UNCHANGED <<callerCancelled, ticksSent, calCalls, lateCalls>>
    /\ UNCHANGED clientVars
    /\ UNCHANGED fnVars

\* evaluation of the argument int(failedCount)
UnitReadFailed(u) ==
    /\ u \in UnitIds
    /\ units[u].pc = "readF"
    /\ units' = [units EXCEPT ![u].pc = "update", ![u].rF = failedCount]
    /\ UNCHANGED <<mode, concurrency, pc, row, stocks, dates,
                   successCount, failedCount, tick, cancelled, updateCalls>>
    /\ UNCHANGED <<callerCancelled, ticksSent, calCalls, lateCalls>>
    /\ UNCHANGED clientVars
    /\ UNCHANGED fnVars

\* updateTaskProgress: UPDATE fetch_tasks SET progress, success_count,
\* failed_count WHERE id = taskID
updateTaskProgress(r, progress, sc, fc) ==
    IF r.exists
    THEN [r EXCEPT !.progress = progress, !.success_count = sc,
                   !.failed_count = fc]
    ELSE r

\* the unit's call of updateTaskProgress, after which it returns
UnitUpdate(u) ==
    /\ u \in UnitIds
    /\ units[u].pc = "update"
    /\ row' = updateTaskProgress(row, units[u].prog, units[u].rS, units[u].rF)
    /\ units' = [units EXCEPT ![u] = ReturnOf(@)]
    /\ updateCalls' = updateCalls + 1
    /\ UNCHANGED <<mode, concurrency, pc, stocks, dates,
                   successCount, failedCount, tick, cancelled>>
    /\ UNCHANGED <<callerCancelled, ticksSent, calCalls, lateCalls>>
    /\ UNCHANGED clientVars
    /\ UNCHANGED fnVars

(***************************************************************************)
(* Environment.                                                            *)
(***************************************************************************)
\* the ticker fires; the channel buffers one tick and drops the others
Tick ==
    /\ ~tick
    /\ tick' = TRUE
    /\ ticksSent' = ticksSent + 1
    /\ UNCHANGED <<mode, concurrency, pc, row, stocks, dates, units,
                   successCount, failedCount, cancelled, updateCalls>>
    /\ UNCHANGED <<callerCancelled, calCalls, lateCalls>>
    /\ UNCHANGED clientVars
    /\ UNCHANGED fnVars

\* the caller cancels the job context (the legacy mode never reads it)
Cancel ==
    /\ mode # "legacy"
    /\ pc \in {"resolve", "dispatch", "wait"}
    /\ ~cancelled
    /\ cancelled' = TRUE
    /\ callerCancelled' = TRUE
    /\ UNCHANGED <<mode, concurrency, pc, row, stocks, dates, units,
                   successCount, failedCount, tick, updateCalls>>
    /\ UNCHANGED <<ticksSent, calCalls, lateCalls>>
    /\ UNCHANGED clientVars
    /\ UNCHANGED fnVars

(***************************************************************************)
(* TushareClient.request: the retry loop around doRequest.                 *)
(***************************************************************************)
\* the errors doRequest returns: the request could not be sent, or the
\* body could not be read or decoded
TransportErrors ==
    {[kind |-> "transport", msg |-> m] : m \in {"send", "decode"}}

\* the responses of the provider: status 0 with a data table or with data
\* that is no table, or a non-zero status with a message
Responses ==
    {[nil |-> FALSE, code |-> 0, msg |-> "success", data |-> d] :
        d \in {"table", "garbage"}}
    \cup {[nil |-> FALSE, code |-> 4001, msg |-> m, data |-> "null"] :
            m \in {"no permission", "busy"}}

\* what one call of doRequest may return
DoRequestResults ==
    {[resp |-> NilResp, err |-> e] : e \in TransportErrors}
    \cup {[resp |-> r, err |-> NoErr] : r \in Responses}

\* variant: only a transport failure is retried
Succeeds_TransportOnly(o) == o.err = NoErr

\* if lastErr == nil && resp.Code == 0 { break }
Succeeds(o) == o.err = NoErr /\ o.resp.code = 0

\* variant: one iteration more
LoopContinues_OneMore(i, r) == i <= r + 1

\* the loop condition i <= c.retry
LoopContinues(i, r) == i <= r

\* if i < c.retry { time.Sleep(...) }
SleepsAfter(i, r) == i < r

\* variant: the same pause after every failure
Backoff_Constant(i) == 1

\* time.Second * time.Duration(i+1), in seconds
Backoff(i) == i + 1

\* variant: the provider's message is not carried
ApiError_Generic(msg) == [kind |-> "api", msg |-> ""]

\* fmt.Errorf("API 返回错误: %s", resp.Msg)
ApiError(msg) == [kind |-> "api", msg |-> msg]

\* fmt.Errorf("解析响应数据失败: %w", err)
DataError == [kind |-> "data", msg |-> ""]

\* the statements of request after the loop
RequestResult(resp, lastErr) ==
    IF lastErr # NoErr
    THEN [returned |-> TRUE, data |-> "nil", err |-> lastErr, panic |-> FALSE]
    ELSE IF resp.nil
    THEN [returned |-> TRUE, data |-> "nil", err |-> NoErr, panic |-> TRUE]
    ELSE IF resp.code # 0
    THEN [returned |-> TRUE, data |-> "nil", err |-> ApiError(resp.msg),
          panic |-> FALSE]
    ELSE IF resp.data # "table"
    THEN [returned |-> TRUE, data |-> "nil", err |-> DataError, panic |-> FALSE]
    ELSE [returned |-> TRUE, data |-> "table", err |-> NoErr, panic |-> FALSE]

\* request is entered with the loop variable at 0
RequestInit ==
    /\ retry \in 0..MaxRetry
    /\ req = [pc |-> "loop", i |-> 0, resp |-> NilResp, lastErr |-> NoErr]
    /\ attempts = <<>>
    /\ sleeps = <<>>
    /\ result = NoResult

\* one call of doRequest and the test that follows it
Attempt ==
    /\ req.pc = "loop"
    /\ LoopContinues(req.i, retry)
    /\ \E o \in DoRequestResults :
         /\ attempts' = Append(attempts, o)
         /\ req' = [pc      |-> IF Succeeds(o) THEN "after"
                                ELSE IF SleepsAfter(req.i, retry) THEN "sleep"
                                ELSE "loop",
                    i       |-> IF Succeeds(o) \/ SleepsAfter(req.i, retry)
                                THEN req.i ELSE req.i + 1,
                    resp    |-> o.resp,
                    lastErr |-> o.err]
    /\ UNCHANGED <<retry, sleeps, result, data, parsed>>
    /\ UNCHANGED jobVars
    /\ UNCHANGED fnVars

\* time.Sleep(time.Second * time.Duration(i+1)), then i++
Sleep ==
    /\ req.pc = "sleep"
    /\ sleeps' = Append(sleeps, Backoff(req.i))
    /\ req' = [req EXCEPT !.pc = "loop", !.i = @ + 1]
    /\ UNCHANGED <<retry, attempts, result, data, parsed>>
    /\ UNCHANGED jobVars
    /\ UNCHANGED fnVars

\* the loop is left by break or by its condition; request returns
RequestReturn ==
    /\ \/ req.pc = "after"
       \/ req.pc = "loop" /\ ~LoopContinues(req.i, retry)
    /\ result' = RequestResult(req.resp, req.lastErr)
    /\ req' = [req EXCEPT !.pc = "returned"]
    /\ UNCHANGED <<retry, attempts, sleeps, data, parsed>>
    /\ UNCHANGED jobVars
    /\ UNCHANGED fnVars

(***************************************************************************)
(* TushareClient.parseDailyData.  A cell of a row is a decoded JSON value: *)
(* null, a string or a number.                                             *)
(***************************************************************************)
Null == [t |-> "null", s |-> "", n |-> 0]

Str(x) == [t |-> "str", s |-> x, n |-> 0]

Num(x) == [t |-> "num", s |-> "", n |-> x]

\* fieldMap[name]: the index (from 0) of the last occurrence of the name
\* in data.Fields, and 0, the zero value of the map, for a name not in it
FieldIndex(fields, name) ==
    IF \E i \in 1..Len(fields) : fields[i] = name
    THEN (CHOOSE i \in 1..Len(fields) :
            /\ fields[i] = name
            /\ \A j \in 1..Len(fields) : fields[j] = name => j <= i) - 1
    ELSE 0

getString(item, index) ==
    IF index < 0 \/ index >= Len(item) THEN ""
    ELSE IF item[index + 1].t = "str" THEN item[index + 1].s
    ELSE ""

getFloat(item, index) ==
    IF index < 0 \/ index >= Len(item) THEN 0
    ELSE IF item[index + 1].t = "num" THEN item[index + 1].n
    ELSE 0

\* the StockDailyData built from one item
DailyRecord(fields, item) ==
    [ts_code    |-> getString(item, FieldIndex(fields, "ts_code")),
     trade_date |-> getString(item, FieldIndex(fields, "trade_date")),
     open       |-> getFloat(item, FieldIndex(fields, "open")),
     high       |-> getFloat(item, FieldIndex(fields, "high")),
     low        |-> getFloat(item, FieldIndex(fields, "low")),
     close      |-> getFloat(item, FieldIndex(fields, "close")),
     pre_close  |-> getFloat(item, FieldIndex(fields, "pre_close")),
     change     |-> getFloat(item, FieldIndex(fields, "change")),
     pct_chg    |-> getFloat(item, FieldIndex(fields, "pct_chg")),
     vol        |-> getFloat(item, FieldIndex(fields, "vol")),
     amount     |-> getFloat(item, FieldIndex(fields, "amount"))]

\* parseDailyData: one record per item, in order, and a nil error
parseDailyData(d) ==
    [done    |-> TRUE,
     records |-> [k \in 1..Len(d.items) |-> DailyRecord(d.fields, d.items[k])],
     err     |-> FALSE]

\* the column names and the cells the provider's tables are drawn from
TableColumns == {"ts_code", "trade_date", "open"}

TableCells == {Null, Str("000001.SZ"), Num(10)}

\* sequences of length n over S
SeqsOfLen(S, n) == [1..n -> S]

\* column lists: up to MaxCols different names
TableFields ==
    {f \in UNION {SeqsOfLen(TableColumns, n) : n \in 0..MaxCols} :
        \A i, j \in 1..Len(f) : f[i] = f[j] => i = j}

\* item lists: up to MaxRows rows of one length up to MaxCols
TableItems ==
    UNION {SeqsOfLen(SeqsOfLen(TableCells, n), k) :
             n \in 0..MaxCols, k \in 0..MaxRows}

\* parseDailyData is entered with a table of the provider
ParseInit ==
    /\ data \in [fields : TableFields, items : TableItems]
    /\ parsed = NotParsed

\* the call of parseDailyData
Parse ==
    /\ ~parsed.done
    /\ parsed' = parseDailyData(data)
    /\ UNCHANGED <<retry, req, attempts, sleeps, result, data>>
    /\ UNCHANGED jobVars
    /\ UNCHANGED fnVars

(***************************************************************************)
(* One call of a date resolver: generateDateRange, generateWeekDateRange   *)
(* or generateMonthEndDates on a range and a result of GetTradeCal.        *)
(***************************************************************************)
\* Friday 29 September 2023: Sunday 1 October is two days later
MonthEndAnchor == 2023 * 10000 + 9 * 100 + 29

\* Friday 27 December 2024: Monday 30 December is in ISO week 1 of 2025
YearEndAnchor == 2024 * 10000 + 12 * 100 + 27

Anchors == {BaseDate, MonthEndAnchor, YearEndAnchor}

\* the ranges handed to a resolver, the inverted ones included
ResolverRanges ==
    {[start |-> AddDays(a, i), end |-> AddDays(a, j)] :
        a \in Anchors, i \in 0..MaxSpan, j \in 0..MaxSpan}

\* the rows of a calendar response with its first row sent twice
WithRepeat(rows) == IF rows = <<>> THEN rows ELSE Append(rows, rows[1])

\* what GetTradeCal may return for a range: an error, or the rows of the
\* days of the range (or of the range widened by a day at both ends), any
\* of them flagged open, closed days left out or not, a row repeated or not
ResolverCalendars(r) ==
    {CalError} \cup
    UNION {
      {CalOk(IF repeat THEN WithRepeat(CalRows(days, open, filtered))
             ELSE CalRows(days, open, filtered)) :
          open \in SUBSET Range(days), filtered \in BOOLEAN,
          repeat \in BOOLEAN} :
      days \in {DaysDesc(r.start, r.end),
                DaysDesc(AddDays(r.start, -1), AddDays(r.end, 1))}}

\* a resolver is entered with a range and the result of its calendar call
ResolverInit ==
    /\ rng \in ResolverRanges
    /\ calendar \in ResolverCalendars(rng)
    /\ resolved = NotResolved

\* generateDateRange returns
ResolveDaily ==
    /\ ~resolved.done
    /\ resolved' = [done |-> TRUE, kind |-> "daily",
                    dates |-> generateDateRange(rng.start, rng.end, calendar)]
    /\ UNCHANGED <<rng, calendar>>
    /\ UNCHANGED <<jobVars, clientVars, batchVars, configVars, startVars>>

\* generateWeekDateRange returns
ResolveWeekly ==
    /\ ~resolved.done
    /\ resolved' = [done |-> TRUE, kind |-> "weekly",
                    dates |-> generateWeekDateRange(rng.start, rng.end, calendar)]
    /\ UNCHANGED <<rng, calendar>>
    /\ UNCHANGED <<jobVars, clientVars, batchVars, configVars, startVars>>

\* generateMonthEndDates returns
ResolveMonthly ==
    /\ ~resolved.done
    /\ resolved' = [done |-> TRUE, kind |-> "monthly",
                    dates |-> generateMonthEndDates(rng.start, rng.end, calendar)]
    /\ UNCHANGED <<rng, calendar>>
    /\ UNCHANGED <<jobVars, clientVars, batchVars, configVars, startVars>>

(***************************************************************************)
(* One call of batchInsertDailyData, batchInsertWeeklyData or              *)
(* batchInsertMonthlyData.  A date text of the provider is either eight    *)
(* digits, given as the number they spell, or some other text; a record    *)
(* of the input has the texts of its trade date and of its end date.       *)
(***************************************************************************)
\* time.Time{}
ZeroTime == 0

\* "20231130"
GoodText == [digits |-> TRUE, n |-> BaseDate]

\* "20231131": eight digits that are no date
InvalidText == [digits |-> TRUE, n |-> BaseDate + 1]

\* a text that is not eight digits, the empty text included
NoDateText == [digits |-> FALSE, n |-> 0]

\* time.Parse("20060102", x): the date, or an error and the zero time
ParseDate(x) ==
    IF /\ x.digits
       /\ 1 <= Month(x.n) /\ Month(x.n) <= 12
       /\ 1 <= Day(x.n) /\ Day(x.n) <= DaysInMonth(Year(x.n), Month(x.n))
    THEN [err |-> FALSE, t |-> x.n]
    ELSE [err |-> TRUE, t |-> ZeroTime]

\* getTime of a text cell
getTime(x) == IF ParseDate(x).err THEN ZeroTime ELSE ParseDate(x).t

\* the records of a provider response
BatchRecords == [trade : {GoodText, InvalidText, NoDateText},
                 end   : {GoodText, NoDateText}]

BatchInputs == UNION {[1..n -> BatchRecords] : n \in 0..MaxRecords}

BatchKinds == {"daily", "weekly", "monthly"}

\* variant: only the trade date is tested
WeeklyKeeps_TradeOnly(rec) == ~ParseDate(rec.trade).err

\* batchInsertWeeklyData: `continue` when either date fails to parse
WeeklyKeeps(rec) == ~ParseDate(rec.trade).err /\ ~ParseDate(rec.end).err

\* whether the record is appended to the chunk's rows
Keeps(kind, rec) == kind = "weekly" => WeeklyKeeps(rec)

\* the row appended for record number k: the daily and weekly inserts
\* parse the texts, the monthly insert copies the dates parseMonthlyData
\* made with getTime
StoredRow(kind, k, rec) ==
    IF kind = "daily"
    THEN [k |-> k, trade_date |-> ParseDate(rec.trade).t, end_date |-> ZeroTime]
    ELSE IF kind = "weekly"
    THEN [k |-> k, trade_date |-> ParseDate(rec.trade).t,
          end_date |-> ParseDate(rec.end).t]
    ELSE [k |-> k, trade_date |-> getTime(rec.trade),
          end_date |-> getTime(rec.end)]

\* the rows built from the slice in[from..to]
ChunkRows(kind, in, from, to) ==
    LET idx  == [j \in 1..(to - from + 1) |-> from + j - 1]
        kept == SelectSeq(idx, LAMBDA k : Keeps(kind, in[k]))
    IN  [j \in 1..Len(kept) |-> StoredRow(kind, kept[j], in[kept[j]])]

\* end := i + batchSize; if end > len(data) { end = len(data) }
ChunkEnd(i, b, n) == IF i + b > n THEN n ELSE i + b

\* variant: the loop steps over one record
NextIndex_Skip(i, b) == i + b + 1

\* i += batchSize
NextIndex(i, b) == i + b

\* a batch insert is entered
BatchInit ==
    /\ input \in BatchInputs
    /\ batch \in [kind : BatchKinds, size : 1..MaxBatch, i : {0}, ret : {"none"}]
    /\ inserts = <<>>

\* one iteration of the loop: the rows of the chunk are built and handed
\* to CreateInBatches, which succeeds or returns an error
BatchChunk ==
    /\ batch.ret = "none"
    /\ batch.i < Len(input)
    /\ \E ok \in BOOLEAN :
         LET end == ChunkEnd(batch.i, batch.size, Len(input))
         IN  /\ inserts' = Append(inserts,
                             [from |-> batch.i + 1, to |-> end, ok |-> ok,
                              rows |-> ChunkRows(batch.kind, input,
                                                 batch.i + 1, end)])
             /\ batch' = IF ok
                         THEN [batch EXCEPT !.i = NextIndex(batch.i, batch.size)]
                         ELSE [batch EXCEPT !.ret = "err"]
    /\ UNCHANGED input
    /\ UNCHANGED <<jobVars, clientVars, resolverVars, configVars, startVars>>

\* the loop condition fails: return nil
BatchReturn ==
    /\ batch.ret = "none"
    /\ batch.i >= Len(input)
    /\ batch' = [batch EXCEPT !.ret = "nil"]
    /\ UNCHANGED <<input, inserts>>
    /\ UNCHANGED <<jobVars, clientVars, resolverVars, configVars, startVars>>

(***************************************************************************)
(* The start of the process: LoadConfig and NewDataFetcher.                *)
(***************************************************************************)
Tokens == {"", "your_tushare_token_here", "tok"}

DbTypes == {"postgres", "mysql", "sqlite"}

\* rate limits of a configuration file: n up to 500, and a rate that is
\* one more than the nanoseconds of a minute
RateLimits == {Rate(n) : n \in {-1, 0, 1, 7, 500}} \cup {[over |-> TRUE, n |-> 1]}

\* time.Second, in nanoseconds
Second == 1000 * 1000 * 1000

\* the configuration file is read
ConfigInit ==
    /\ cfg \in [token : Tokens, dbType : DbTypes,
                concurrency : -1..MaxConcurrency, batchSize : -1..MaxBatch,
                rateLimit : RateLimits, valid : {"unchecked"}]
    /\ fetcher = NoFetcher

\* config.Fetcher.Concurrency = 10
DefaultConcurrency == 10

\* config.Fetcher.BatchSize = 1000
DefaultBatchSize == 1000

\* validateConfig: the token and the database type are tested, the
\* concurrency and the batch size get their defaults
validateConfig(c) ==
    IF c.token = "" \/ c.token = "your_tushare_token_here"
    THEN [c EXCEPT !.valid = "rejected"]
    ELSE IF c.dbType # "postgres" /\ c.dbType # "mysql"
    THEN [c EXCEPT !.valid = "rejected"]
    ELSE [c EXCEPT !.valid = "accepted",
                   !.concurrency = IF @ <= 0 THEN DefaultConcurrency ELSE @,
                   !.batchSize = IF @ <= 0 THEN DefaultBatchSize ELSE @]

\* time.Minute / k for 0 < k <= 500, as 60 * sixty + units nanoseconds
MinuteOver(k) ==
    [sign |-> 1, sixty |-> Second \div k, units |-> (60 * (Second % k)) \div k]

\* time.Minute / time.Duration(rl): Go's division truncates toward zero;
\* the divisor 0 is a run-time panic, which is not an interval
TickerInterval(rl) ==
    IF rl.over THEN [sign |-> 0, sixty |-> 0, units |-> 0]
    ELSE IF rl.n > 0 THEN MinuteOver(rl.n)
    ELSE IF rl.n < 0 THEN [MinuteOver(-rl.n) EXCEPT !.sign = -1]
    ELSE [sign |-> 0, sixty |-> 0, units |-> 0]

\* NewDataFetcher: the division panics on a zero rate limit, time.NewTicker
\* panics on an interval that is not positive
NewDataFetcher(c) ==
    IF ~c.rateLimit.over /\ c.rateLimit.n = 0
    THEN [NoFetcher EXCEPT !.panic = "integer divide by zero"]
    ELSE IF TickerInterval(c.rateLimit).sign <= 0
    THEN [NoFetcher EXCEPT !.panic = "non-positive interval for NewTicker",
                           !.interval = TickerInterval(c.rateLimit)]
    ELSE [NoFetcher EXCEPT !.built = TRUE,
                           !.interval = TickerInterval(c.rateLimit)]

\* LoadConfig calls validateConfig; main stops on its error
ValidateConfig ==
    /\ cfg.valid = "unchecked"
    /\ cfg' = validateConfig(cfg)
    /\ UNCHANGED fetcher
    /\ UNCHANGED <<jobVars, clientVars, resolverVars, batchVars, startVars>>

\* main calls NewDataFetcher with the accepted configuration
MakeFetcher ==
    /\ cfg.valid = "accepted"
    /\ fetcher = NoFetcher
    /\ fetcher' = NewDataFetcher(cfg)
    /\ UNCHANGED cfg
    /\ UNCHANGED <<jobVars, clientVars, resolverVars, batchVars, startVars>>

(***************************************************************************)
(* The starts of jobs.  A start over HTTP has a handler (FetchDaily,       *)
(* FetchWeekly, FetchMonthly), which binds the request, starts a goroutine *)
(* that runs the entry point and answers; the legacy entry point has no    *)
(* handler and is called directly.  The goroutine is a job of one unit,    *)
(* followed through its writes of fetch_tasks.                             *)
(***************************************************************************)
\* the clock seconds in which the starts fall
MaxClock == MaxStarts - 1

\* no TaskID
NoTaskId == [prefix |-> "", unix |-> 0]

\* fmt.Sprintf("task_%d", time.Now().Unix()), and the weekly and monthly
\* formats
TaskId(freq, unix) == [prefix |-> TaskPrefix(freq), unix |-> unix]

\* a models.FetchTask that is not created
NoTask ==
    [exists |-> FALSE, id |-> 0, task_id |-> NoTaskId,
     start_date |-> 0, end_date |-> 0, status |-> "", progress |-> 0,
     total_count |-> 0, success_count |-> 0, failed_count |-> 0,
     end_time |-> FALSE]

\* task := &models.FetchTask{TaskID, StartDate, EndDate, Status: "running"},
\* with primary key id (0 until the insert gives it one)
NewTask(id, tid) ==
    [NoTask EXCEPT !.exists = TRUE, !.id = id, !.task_id = tid,
                   !.start_date = startDate, !.end_date = endDate,
                   !.status = "running"]

\* no response written
NoResponse == [sent |-> FALSE, code |-> 0, task_id |-> NoTaskId]

\* a start: freq, the entry point; valid, the body binds; hpc, gpc, the
\* positions of the handler and of the goroutine; task, the goroutine's
\* FetchTask; sc, fc, its counters; response, what the handler wrote
NewStart(freq, valid) ==
    [freq |-> freq, valid |-> valid,
     hpc |-> IF freq = "legacy" THEN "none" ELSE "bind",
     gpc |-> IF freq = "legacy" THEN "build" ELSE "off",
     task |-> NoTask, sc |-> 0, fc |-> 0, response |-> NoResponse]

StartRequests ==
    {NewStart(f, v) : f \in Modes \ {"legacy"}, v \in BOOLEAN}
      \cup {NewStart("legacy", TRUE)}

\* the place of a start in the list of starts: by entry point, the starts
\* whose body binds first
StartRank(st) ==
    2 * (CASE st.freq = "legacy" -> 0 [] st.freq = "daily" -> 1
           [] st.freq = "weekly" -> 2 [] OTHER -> 3)
      + (IF st.valid THEN 0 ELSE 1)

\* up to MaxStarts starts are under way, in any order of their steps; the
\* list names them by entry point
StartInit ==
    /\ clock = 0
    /\ tasks = <<>>
    /\ starts \in {ss \in UNION {[1..n -> StartRequests] : n \in 1..MaxStarts} :
                     \A i, j \in DOMAIN ss :
                       i < j => StartRank(ss[i]) <= StartRank(ss[j])}

StartIds == DOMAIN starts

\* c.JSON(http.StatusBadRequest, Response{Code: 400, ...})
BadRequest == [sent |-> TRUE, code |-> 400, task_id |-> NoTaskId]

\* c.JSON(http.StatusOK, Response{Code: 0, Message: ...}): no Data
Started == [sent |-> TRUE, code |-> 0, task_id |-> NoTaskId]

\* c.ShouldBindJSON(&req), and on success `go func() { ... }()`
HandlerBind(i) ==
    /\ i \in StartIds
    /\ starts[i].hpc = "bind"
    /\ starts' = [starts EXCEPT ![i] =
                    IF starts[i].valid
                    THEN [@ EXCEPT !.hpc = "respond", !.gpc = "build"]
                    ELSE [@ EXCEPT !.hpc = "done", !.response = BadRequest]]
    /\ UNCHANGED <<clock, tasks>>
    /\ UNCHANGED <<jobVars, clientVars, resolverVars, batchVars, configVars>>

\* the handler answers the request
HandlerRespond(i) ==
    /\ i \in StartIds
    /\ starts[i].hpc = "respond"
    /\ starts' = [starts EXCEPT ![i].hpc = "done",
                                ![i].response = Started]
    /\ UNCHANGED <<clock, tasks>>
    /\ UNCHANGED <<jobVars, clientVars, resolverVars, batchVars, configVars>>

\* the unique index of fetch_tasks.task_id rejects the insert
Collides(table, tid) == \E k \in DOMAIN table : table[k].task_id = tid

\* the values time.Now().Unix() can return: the second of the last
\* reading or a later one
UnixNow == clock..MaxClock

\* the entry point reads the clock and builds its task, which has no row
\* yet: task := &models.FetchTask{TaskID: fmt.Sprintf(...), ...}
JobBuild(i) ==
    /\ i \in StartIds
    /\ starts[i].gpc = "build"
    /\ \E unix \in UnixNow :
         /\ clock' = unix
         /\ starts' = [starts EXCEPT
                         ![i].gpc = "create",
                         ![i].task = [NewTask(0, TaskId(starts[i].freq, unix))
                                        EXCEPT !.exists = FALSE]]
    /\ UNCHANGED tasks
    /\ UNCHANGED <<jobVars, clientVars, resolverVars, batchVars, configVars>>

\* f.db.Create(task) with the TaskID built before: the insert, or the
\* return of its error
JobCreate(i) ==
    /\ i \in StartIds
    /\ starts[i].gpc = "create"
    /\ LET tid == starts[i].task.task_id
           t   == [starts[i].task EXCEPT !.exists = TRUE,
                                         !.id = Len(tasks) + 1]
       IN  IF Collides(tasks, tid)
           THEN /\ starts' = [starts EXCEPT ![i].gpc = "error"]
                /\ tasks' = tasks
           ELSE /\ starts' = [starts EXCEPT ![i].gpc = "save", ![i].task = t]
                /\ tasks' = Append(tasks, t)
    /\ UNCHANGED clock
    /\ UNCHANGED <<jobVars, clientVars, resolverVars, batchVars, configVars>>

\* f.db.Save(task): every column of the row with the task's primary key
SaveRows(table, t) ==
    [k \in DOMAIN table |-> IF table[k].id = t.id THEN t ELSE table[k]]

\* task.TotalCount = len(dates); f.db.Save(task)
JobSave(i) ==
    /\ i \in StartIds
    /\ starts[i].gpc = "save"
    /\ LET t == [starts[i].task EXCEPT !.total_count = 1]
       IN  /\ starts' = [starts EXCEPT ![i].gpc = "update", ![i].task = t]
           /\ tasks' = SaveRows(tasks, t)
    /\ UNCHANGED clock
    /\ UNCHANGED <<jobVars, clientVars, resolverVars, batchVars, configVars>>

\* variant: the UPDATE has no WHERE clause
RowMatches_Any(r, id) == TRUE

\* Where("id = ?", taskID)
RowMatches(r, id) == r.id = id

\* updateTaskProgress on the table
UpdateRows(table, id, progress, sc, fc) ==
    [k \in DOMAIN table |->
       IF RowMatches(table[k], id)
       THEN updateTaskProgress(table[k], progress, sc, fc)
       ELSE table[k]]

\* the counters of a job of one unit after its data call returned with
\* outcome o and, when it returned rows, its batch insert returned ok
UnitCounts(freq, o, ok) ==
    IF o = "rows" THEN InsertCounts(ok)
    ELSE [success |-> IF AfterFetch(freq, o).count = 1 THEN 1 ELSE 0,
          failed  |-> IF AfterFetch(freq, o).count = -1 THEN 1 ELSE 0]

\* whether the unit goes on to updateTaskProgress: the closures return
\* before it when the data call failed, the legacy mode calls it when
\* total%100 == 0
UnitReports(freq, o, total) ==
    /\ freq = "legacy" \/ o # "err"
    /\ ReportsProgress(freq, total)

\* the progress the one unit reports: (index+1)*100/len(dates) by index,
\* total*100/TotalCount otherwise
StartProgress(freq, total) ==
    IF freq \in {"daily", "monthly"} THEN Percent(1, 1) ELSE Percent(total, 1)

\* the one unit of the job: its data call, the batch insert of its rows,
\* its counters and, unless it returns before, its updateTaskProgress
JobUpdate(i) ==
    /\ i \in StartIds
    /\ starts[i].gpc = "update"
    /\ \E o \in FetchOutcomes, ok \in BOOLEAN :
         LET c     == UnitCounts(starts[i].freq, o, ok)
             total == c.success + c.failed
         IN  /\ starts' = [starts EXCEPT ![i].gpc = "final",
                                         ![i].sc = c.success,
                                         ![i].fc = c.failed]
             /\ tasks' = IF UnitReports(starts[i].freq, o, total)
                         THEN UpdateRows(tasks, starts[i].task.id,
                                         StartProgress(starts[i].freq, total),
                                         c.success, c.failed)
                         ELSE tasks
    /\ UNCHANGED clock
    /\ UNCHANGED <<jobVars, clientVars, resolverVars, batchVars, configVars>>

\* after the join: EndTime, Status, Progress, counters, f.db.Save(task)
JobFinalize(i) ==
    /\ i \in StartIds
    /\ starts[i].gpc = "final"
    /\ LET t == [starts[i].task EXCEPT
                   !.end_time = TRUE,
                   !.status = FinalStatus(starts[i].fc),
                   !.progress = FinalProgress(starts[i].sc, starts[i].fc, 1),
                   !.success_count = starts[i].sc,
                   !.failed_count = starts[i].fc]
       IN  /\ starts' = [starts EXCEPT ![i].gpc = "done", ![i].task = t]
           /\ tasks' = SaveRows(tasks, t)
    /\ UNCHANGED clock
    /\ UNCHANGED <<jobVars, clientVars, resolverVars, batchVars, configVars>>

Next ==
    \/ CreateTask
    \/ CreateTaskFails
    \/ LoadStocks
    \/ LoadStocksFails
    \/ ResolveAndSave
    \/ \E u \in UnitIds : Spawn(u)
    \/ EndDispatch
    \/ Finalize
    \/ \E u \in UnitIds : UnitAcquire(u)
    \/ \E u \in UnitIds : UnitCheckCtx(u)
    \/ \E u \in UnitIds : UnitTakeTick(u)
    \/ \E u \in UnitIds : UnitFetchReturn(u)
    \/ \E u \in UnitIds : UnitInsertReturn(u)
    \/ \E u \in UnitIds : UnitLoadSuccess(u)
    \/ \E u \in UnitIds : UnitLoadFailed(u)
    \/ \E u \in UnitIds : UnitReadSuccess(u)
    \/ \E u \in UnitIds : UnitReadFailed(u)
    \/ \E u \in UnitIds : UnitUpdate(u)
    \/ Tick
    \/ Cancel

Spec == Init /\ [][Next]_vars

\* the steps of the orchestrating function and of its units
JobStep ==
    \/ CreateTask
    \/ CreateTaskFails
    \/ LoadStocks
    \/ LoadStocksFails
    \/ ResolveAndSave
    \/ \E u \in UnitIds : Spawn(u)
    \/ EndDispatch
    \/ Finalize
    \/ \E u \in UnitIds : UnitAcquire(u)
    \/ \E u \in UnitIds : UnitCheckCtx(u)
    \/ \E u \in UnitIds : UnitTakeTick(u)
    \/ \E u \in UnitIds : UnitFetchReturn(u)
    \/ \E u \in UnitIds : UnitInsertReturn(u)
    \/ \E u \in UnitIds : UnitLoadSuccess(u)
    \/ \E u \in UnitIds : UnitLoadFailed(u)
    \/ \E u \in UnitIds : UnitReadSuccess(u)
    \/ \E u \in UnitIds : UnitReadFailed(u)
    \/ \E u \in UnitIds : UnitUpdate(u)

\* the job runs on: the process does not crash, every remote call and
\* every database call returns, and the ticker keeps firing
JobLive == Spec /\ WF_vars(JobStep) /\ WF_vars(Tick)

\* the job at rest, for the specifications of the client
JobIdle ==
    /\ mode = "daily"
    /\ concurrency = 1
    /\ pc = "start"
    /\ row = NoRow
    /\ stocks = 0
    /\ dates = <<>>
    /\ units = <<>>
    /\ successCount = 0
    /\ failedCount = 0
    /\ tick = FALSE
    /\ cancelled = FALSE
    /\ updateCalls = 0
    /\ callerCancelled = FALSE
    /\ ticksSent = 0
    /\ calCalls = 0
    /\ lateCalls = 0

RequestNext ==
    \/ Attempt
    \/ Sleep
    \/ RequestReturn

\* request is entered; nothing else runs
RequestStart ==
    /\ RequestInit
    /\ JobIdle
    /\ ParseIdle
    /\ ResolverIdle
    /\ BatchIdle
    /\ ConfigIdle
    /\ StartIdle

\* one call of request
RequestSpec == RequestStart /\ [][RequestNext]_vars

\* request runs on: doRequest returns within the client's timeout and
\* time.Sleep returns
RequestLive == RequestSpec /\ WF_vars(RequestNext)

ParseNext == Parse

ResolverNext ==
    \/ ResolveDaily
    \/ ResolveWeekly
    \/ ResolveMonthly

\* a resolver is entered; nothing else runs
ResolverStart ==
    /\ ResolverInit
    /\ JobIdle
    /\ RequestIdle
    /\ ParseIdle
    /\ BatchIdle
    /\ ConfigIdle
    /\ StartIdle

\* one call of a date resolver
ResolverSpec == ResolverStart /\ [][ResolverNext]_vars

BatchNext ==
    \/ BatchChunk
    \/ BatchReturn

\* a batch insert is entered; nothing else runs
BatchStart ==
    /\ BatchInit
    /\ JobIdle
    /\ RequestIdle
    /\ ParseIdle
    /\ ResolverIdle
    /\ ConfigIdle
    /\ StartIdle

\* one call of a batch insert
BatchSpec == BatchStart /\ [][BatchNext]_vars

\* the insert runs on: CreateInBatches returns
BatchLive == BatchSpec /\ WF_vars(BatchNext)

ConfigNext ==
    \/ ValidateConfig
    \/ MakeFetcher

\* the process starts; nothing else runs
ConfigStart ==
    /\ ConfigInit
    /\ JobIdle
    /\ RequestIdle
    /\ ParseIdle
    /\ ResolverIdle
    /\ BatchIdle
    /\ StartIdle

\* the start of the process
ConfigSpec == ConfigStart /\ [][ConfigNext]_vars

StartNext ==
    \/ \E i \in StartIds : HandlerBind(i)
    \/ \E i \in StartIds : HandlerRespond(i)
    \/ \E i \in StartIds : JobBuild(i)
    \/ \E i \in StartIds : JobCreate(i)
    \/ \E i \in StartIds : JobSave(i)
    \/ \E i \in StartIds : JobUpdate(i)
    \/ \E i \in StartIds : JobFinalize(i)

\* jobs are started; nothing else runs
StartStart ==
    /\ StartInit
    /\ JobIdle
    /\ RequestIdle
    /\ ParseIdle
    /\ ResolverIdle
    /\ BatchIdle
    /\ ConfigIdle

\* the starts of up to MaxStarts jobs
StartSpec == StartStart /\ [][StartNext]_vars

\* a call of an entry point from a goroutine of the caller's own, without
\* a handler
DirectCall(freq) == [NewStart("legacy", TRUE) EXCEPT !.freq = freq]

\* up to MaxStarts entry points are called, in any order of their steps;
\* the list names the calls by entry point
CallInit ==
    /\ clock = 0
    /\ tasks = <<>>
    /\ starts \in {ss \in UNION {[1..n -> {DirectCall(f) : f \in Modes}] :
                                  n \in 1..MaxStarts} :
                     \A i, j \in DOMAIN ss :
                       i < j => StartRank(ss[i]) <= StartRank(ss[j])}

CallNext ==
    \/ \E i \in StartIds : JobBuild(i)
    \/ \E i \in StartIds : JobCreate(i)
    \/ \E i \in StartIds : JobSave(i)
    \/ \E i \in StartIds : JobUpdate(i)
    \/ \E i \in StartIds : JobFinalize(i)

\* entry points are called; nothing else runs
CallStart ==
    /\ CallInit
    /\ JobIdle
    /\ RequestIdle
    /\ ParseIdle
    /\ ResolverIdle
    /\ BatchIdle
    /\ ConfigIdle

\* up to MaxStarts concurrent jobs and their writes of fetch_tasks
CallSpec == CallStart /\ [][CallNext]_vars

\* parseDailyData is entered; nothing else runs
ParseStart ==
    /\ ParseInit
    /\ JobIdle
    /\ RequestIdle
    /\ ResolverIdle
    /\ BatchIdle
    /\ ConfigIdle
    /\ StartIdle

\* one call of parseDailyData
ParseSpec == ParseStart /\ [][ParseNext]_vars

(***************************************************************************)
(* Properties.                                                             *)
(***************************************************************************)
\* units that have returned
Done == {u \in UnitIds : units[u].pc = "done"}

\* C1: in the daily-by-date, weekly and monthly modes progress updates are
\* never lost: when N units have completed and no unit is in flight, the
\* stored record has success_count + failed_count = N and
\* progress = floor(N * 100 / total_count).
C1_UpdatesNeverLost ==
    (mode # "legacy" /\ ~cancelled /\ pc \in {"dispatch", "wait"}
       /\ Active = {} /\ Done # {})
    => /\ row.success_count + row.failed_count = Cardinality(Done)
       /\ row.progress = Percent(Cardinality(Done), TotalCount)

\* C2: in the daily-by-date, weekly and monthly modes every unit that
\* completed, successfully or not, has called updateTaskProgress before it
\* returned.
C2_EveryUnitReports ==
    (mode # "legacy" /\ ~callerCancelled) => updateCalls = Cardinality(Done)

\* C3: in every state the counters in memory and the counters of the stored
\* record satisfy success + failed <= total.
C3_CountersBounded ==
    /\ successCount + failedCount <= TotalCount
    /\ row.success_count + row.failed_count <= row.total_count

\* C3 witness: a running task whose stored counters, with successes and
\* failures, add up to the total.
C3_Witness ==
    /\ row.status = "running"
    /\ row.success_count > 0
    /\ row.failed_count > 0
    /\ row.success_count + row.failed_count = row.total_count

\* C4: while the stored status is completed every unit of the task has
\* returned, so none is running and none starts.
C4_CompletedAfterJoin ==
    row.status = "completed" => \A u \in UnitIds : units[u].pc = "done"

\* C4 witness: a completed task whose two units have returned.
C4_Witness ==
    /\ row.status = "completed"
    /\ Cardinality(UnitIds) >= 2
    /\ Done = UnitIds

\* C5: the stored progress is 100 only when every unit of the task has
\* returned.
C5_FullProgressAfterAll ==
    row.progress = 100 => \A u \in UnitIds : units[u].pc = "done"

\* C6: end_time is null before finalization, it is set once, after all
\* units joined, and from then on neither the record nor a unit changes.
C6_FinalizedOnce ==
    /\ [](pc # "done" => ~row.end_time)
    /\ [][/\ (~row.end_time /\ row'.end_time) => (Joined /\ pc' = "done")
          /\ row.end_time => (row' = row /\ units' = units)]_vars

\* C6 witness: a finalized task that ran units and made progress updates.
C6_Witness ==
    /\ pc = "done"
    /\ row.end_time
    /\ Cardinality(UnitIds) >= 2
    /\ updateCalls >= 2

\* C7: the record is created with status pending and has status running
\* only once the unit list is resolved and total_count recorded.
C7_PendingUntilResolved ==
    (row.exists /\ pc \in {"stocks", "resolve"}) => row.status = "pending"

\* C8: the status failed is never stored; the finalizer stores completed
\* whatever the failure count.
C8_NeverFailed ==
    /\ row.status # "failed"
    /\ pc = "done" => row.status = "completed"

\* C8 witness: a finalized task all of whose units failed.
C8_Witness ==
    /\ pc = "done"
    /\ row.status = "completed"
    /\ row.total_count > 0
    /\ row.failed_count = row.total_count

\* C9: with an empty resolved date list no unit exists (none dispatched, no
\* data call, no division by the total), total_count is 0 and the task is
\* finalized with progress 100 and status completed, without a panic.
C9_EmptyListCompletes ==
    (pc \in {"dispatch", "wait", "done", "panic"} /\ dates = <<>>)
    => /\ units = <<>>
       /\ pc # "panic"
       /\ row.total_count = 0
       /\ pc = "done" => (row.progress = 100 /\ row.status = "completed"
                          /\ row.success_count = 0 /\ row.failed_count = 0)

\* C9 witness: a finalized by-date daily task whose date list is empty.
C9_Witness ==
    /\ mode = "daily"
    /\ pc = "done"
    /\ dates = <<>>
    /\ row.total_count = 0
    /\ row.progress = 100

\* C10: the number of units admitted through the gate and not yet returned
\* is at most the configured concurrency, in every mode.
C10_AdmissionBounded == Cardinality(Admitted) <= concurrency

\* C10 witness: the gate is full and a further unit is held back.
C10_Witness ==
    /\ Cardinality(Admitted) = concurrency
    /\ \E u \in UnitIds : units[u].pc \in {"idle", "sem"}

RECURSIVE SumCalls(_)
\* the data calls started by the units of a list
SumCalls(us) ==
    IF us = <<>> THEN 0 ELSE Head(us).calls + SumCalls(Tail(us))

\* data calls (GetDailyData, GetWeeklyData, GetMonthlyData) started so far
CallsStarted == SumCalls(units)

\* C11: every unit takes exactly one tick of the shared ticker before its
\* data call: the ticks taken from the channel equal the data calls
\* started, no unit starts two, and the data calls started never exceed the
\* ticks the ticker has sent, however many workers are admitted.
C11_CallsWithinTicks ==
    /\ CallsStarted <= ticksSent
    /\ ticksSent - (IF tick THEN 1 ELSE 0) = CallsStarted
    /\ \A u \in UnitIds : units[u].calls <= 1
    /\ \A u \in UnitIds :
         units[u].pc \in {"fetch", "insert", "loadS", "loadF", "readS",
                          "readF", "update"} => units[u].calls = 1

\* C11 witness: two workers are admitted, one has taken the only tick and
\* is in its data call, the other waits for the next tick.
C11_Witness ==
    /\ Cardinality(Admitted) >= 2
    /\ ~tick
    /\ CallsStarted = 1
    /\ \E u, v \in UnitIds : units[u].pc = "fetch" /\ units[v].pc = "tick"

\* C12: a unit's failure cancels neither its siblings nor the job: until
\* the join has returned the job context is done only if the caller
\* cancelled, there is one unit per entry of the work list, no unit starts
\* two data calls, and a job whose caller never cancelled ends with exactly
\* one data call per unit.
C12_FailuresDoNotCancel ==
    /\ (cancelled /\ pc \notin {"done", "panic"}) => callerCancelled
    /\ pc \in {"dispatch", "wait", "done"} => Len(units) = TotalCount
    /\ \A u \in UnitIds : units[u].calls <= 1
    /\ (pc = "done" /\ ~callerCancelled)
         => \A u \in UnitIds : units[u].calls = 1

\* C12 witness: a by-date job of two units ended without cancellation, one
\* unit failed and both made their data call.
C12_Witness ==
    /\ mode # "legacy"
    /\ pc = "done"
    /\ ~callerCancelled
    /\ Len(units) >= 2
    /\ failedCount >= 1
    /\ successCount >= 1
    /\ \A u \in UnitIds : units[u].calls = 1

\* C13: once the job context is cancelled a unit that has not passed its
\* cancellation check returns without waiting for a tick, calling the
\* provider or inserting, so at most `concurrency` data calls start after
\* the cancellation.
C13_CancelStopsAdmission ==
    /\ [](lateCalls <= concurrency)
    /\ [][\A u \in UnitIds :
            (cancelled /\ units[u].pc \in {"idle", "check"})
              => /\ units'[u].pc \in {"idle", "check", "done"}
                 /\ units'[u].calls = units[u].calls]_vars

\* C13 witness: after the cancellation one unit that was past its check
\* started its data call and another returned at its check without one.
C13_Witness ==
    /\ cancelled
    /\ lateCalls >= 1
    /\ \E u \in UnitIds : units[u].pc = "done" /\ units[u].calls = 0

\* C14: when the creation of the task record fails the function has
\* returned the error and nothing else happened: no calendar call, no
\* instrument list, no unit, no data call, no record.
C14_CreateFailureStopsJob ==
    (~row.exists /\ pc # "start")
    => /\ pc = "error"
       /\ calCalls = 0
       /\ stocks = 0
       /\ dates = <<>>
       /\ units = <<>>
       /\ CallsStarted = 0
       /\ updateCalls = 0

\* C14 witness: a by-date job returned the error of the record creation.
C14_Witness ==
    /\ mode = "daily"
    /\ pc = "error"
    /\ ~row.exists

\* an attempt that ends the loop: no error and status code 0
AttemptOk(o) == o.err.kind = "nil" /\ o.resp.code = 0

\* the last call of doRequest so far
LastAttempt == attempts[Len(attempts)]

\* C15: request calls the provider until the first call that succeeds and
\* not after it; a non-zero status code is retried like a transport
\* failure; with retry = 3 and a provider that fails twice and then
\* succeeds, request returns success after exactly 3 calls.
C15_StopsAtFirstSuccess ==
    /\ \A k \in 1..(Len(attempts) - 1) : ~AttemptOk(attempts[k])
    /\ result.returned
         => /\ Len(attempts) >= 1
            /\ AttemptOk(LastAttempt) \/ Len(attempts) = retry + 1
    /\ (result.returned /\ retry = 3 /\ Len(attempts) >= 3
          /\ AttemptOk(attempts[3]))
         => /\ Len(attempts) = 3
            /\ attempts[3].resp.data = "table"
                 => (result.err = NoErr /\ result.data = "table")

\* C15 witness: retry = 3, a transport failure, then a non-zero status
\* code, then a success: request returned the table after three calls.
C15_Witness ==
    /\ result.returned
    /\ retry = 3
    /\ Len(attempts) = 3
    /\ attempts[1].err.kind = "transport"
    /\ attempts[2].err.kind = "nil" /\ attempts[2].resp.code # 0
    /\ result.err = NoErr
    /\ result.data = "table"

\* C16: request makes at least one and at most retry + 1 calls, exactly
\* retry + 1 when every attempt fails, and the loop terminates.
C16_RetriesBounded ==
    /\ [](Len(attempts) <= retry + 1)
    /\ [](result.returned
            => /\ Len(attempts) >= 1
               /\ (\A k \in 1..Len(attempts) : ~AttemptOk(attempts[k]))
                    => Len(attempts) = retry + 1)
    /\ <>(result.returned)

\* C16 witness: with the largest retry bound every attempt failed and
\* request returned after retry + 1 calls.
C16_Witness ==
    /\ result.returned
    /\ retry = MaxRetry
    /\ Len(attempts) = retry + 1
    /\ \A k \in 1..Len(attempts) : ~AttemptOk(attempts[k])

\* C17: when all attempts fail request returns no data and the error of
\* the final attempt: its transport error, or else an error that carries
\* the message of its non-zero status verbatim.
C17_LastErrorSurfaced ==
    (result.returned /\ attempts # <<>> /\ ~AttemptOk(LastAttempt))
    => /\ result.data = "nil"
       /\ ~result.panic
       /\ result.err = IF LastAttempt.err.kind = "transport"
                       THEN LastAttempt.err
                       ELSE [kind |-> "api", msg |-> LastAttempt.resp.msg]

\* C17 witness: attempts failed in transport and with another message
\* before the final attempt, whose status message is the one returned.
C17_Witness ==
    /\ result.returned
    /\ Len(attempts) >= 3
    /\ attempts[1].err.kind = "transport"
    /\ attempts[2].err.kind = "nil" /\ attempts[2].resp.msg = "no permission"
    /\ LastAttempt.err.kind = "nil" /\ LastAttempt.resp.msg = "busy"
    /\ result.err = [kind |-> "api", msg |-> "busy"]

\* the failed attempts that are followed by a pause: all but the attempt
\* number retry + 1
PausedAttempts ==
    {j \in 1..Len(attempts) : ~AttemptOk(attempts[j]) /\ j <= retry}

\* C18: the pause after the i-th failed attempt is i seconds; there is no
\* pause after a successful attempt and none after the final permitted
\* attempt.
C18_LinearBackoff ==
    /\ \A j \in 1..Len(sleeps) :
         /\ sleeps[j] = j
         /\ j \in PausedAttempts
    /\ Len(sleeps) = Cardinality(PausedAttempts)
                       - (IF req.pc = "sleep" THEN 1 ELSE 0)

\* C18 witness: four failed attempts with retry = 3: pauses of 1, 2 and 3
\* seconds and none after the fourth.
C18_Witness ==
    /\ result.returned
    /\ Len(attempts) = 4
    /\ ~AttemptOk(LastAttempt)
    /\ sleeps = <<1, 2, 3>>

\* the text columns and the numeric columns of StockDailyData
StringColumns == {"ts_code", "trade_date"}

FloatColumns ==
    {"open", "high", "low", "close", "pre_close", "change", "pct_chg",
     "vol", "amount"}

\* the cell of an item under a column name, Null when the column list does
\* not have the name or the item is too short
CellOf(fields, item, col) ==
    IF \E i \in 1..Len(fields) : fields[i] = col /\ i <= Len(item)
    THEN item[CHOOSE i \in 1..Len(fields) : fields[i] = col /\ i <= Len(item)]
    ELSE Null

\* C19: decoding never fails, and in every record a field whose cell is
\* null, of an unexpected type, or whose column name is not in the column
\* list is the zero value, while every other field is the value of its cell.
C19_AbsentOrNullDecodesToZero ==
    parsed.done
    => /\ ~parsed.err
       /\ Len(parsed.records) = Len(data.items)
       /\ \A k \in 1..Len(parsed.records) :
            /\ \A c \in StringColumns :
                 parsed.records[k][c] =
                   (IF CellOf(data.fields, data.items[k], c).t = "str"
                    THEN CellOf(data.fields, data.items[k], c).s ELSE "")
            /\ \A c \in FloatColumns :
                 parsed.records[k][c] =
                   (IF CellOf(data.fields, data.items[k], c).t = "num"
                    THEN CellOf(data.fields, data.items[k], c).n ELSE 0)

\* the permutations of 1..n
Perms(n) == {f \in [1..n -> 1..n] : \A i, j \in 1..n : f[i] = f[j] => i = j}

\* the table with its column list and every row permuted by f
PermuteTable(d, f) ==
    [fields |-> [i \in 1..Len(d.fields) |-> d.fields[f[i]]],
     items  |-> [k \in 1..Len(d.items) |->
                   [i \in 1..Len(d.fields) |-> d.items[k][f[i]]]]]

\* C20: rows are decoded by column name: one record per row, and the same
\* permutation applied to the column list and to every row gives the same
\* records.
C20_DecodedByName ==
    parsed.done
    => /\ ~parsed.err
       /\ Len(parsed.records) = Len(data.items)
       /\ (\A k \in 1..Len(data.items) :
               Len(data.items[k]) = Len(data.fields))
            => \A f \in Perms(Len(data.fields)) :
                 parseDailyData(PermuteTable(data, f)).records = parsed.records

\* the dates the calendar response flags open
OpenSet == Range(OpenDates(calendar.rows))

\* the resolver of the kind took its fallback generator
FallbackUsed(kind) ==
    calendar.err \/ (kind = "monthly" /\ calendar.rows = <<>>)

\* the sequence is strictly ascending
Ascending(ds) == \A i, j \in 1..Len(ds) : i < j => ds[i] < ds[j]

\* the Monday of the week of a date: two dates are in the same ISO week
\* exactly when their Mondays are equal
MondayOf(d) == AddDays(d, 0 - ((Weekday(d) + 6) % 7))

\* C21: for every non-empty range and every calendar response the output
\* of the daily resolver is strictly ascending (so without duplicates), has
\* only dates of [start, end], and only dates the response flags open.
C21_DailyAscendingInRange ==
    (resolved.done /\ resolved.kind = "daily" /\ rng.start <= rng.end)
    => /\ Ascending(resolved.dates)
       /\ \A d \in Range(resolved.dates) : rng.start <= d /\ d <= rng.end
       /\ ~calendar.err => Range(resolved.dates) \subseteq OpenSet

\* C22: on the authoritative path the weekly output has one date per ISO
\* (year, week) of the sorted trading days, each the latest trading day of
\* its week, in ascending order, also across a year boundary.
C22_WeeklyLastOfEachWeek ==
    (resolved.done /\ resolved.kind = "weekly" /\ ~calendar.err)
    => LET daily == Range(getTradeDates(calendar.rows))
           out   == resolved.dates
       IN  /\ Len(out) = Cardinality({MondayOf(d) : d \in daily})
           /\ Len(out) = Cardinality({ISOWeek(d) : d \in daily})
           /\ Ascending(out)
           /\ \A i \in 1..Len(out) :
                /\ out[i] \in daily
                /\ \A d \in daily :
                     MondayOf(d) = MondayOf(out[i]) => d <= out[i]

\* C22 witness: trading days of the last ISO week of 2024 and of week 1 of
\* 2025, which begins on 30 December 2024, give two dates.
C22_Witness ==
    /\ resolved.done /\ resolved.kind = "weekly" /\ ~calendar.err
    /\ Len(resolved.dates) = 2
    /\ Cardinality(OpenSet) >= 3
    /\ Year(resolved.dates[2]) = Year(resolved.dates[1])
    /\ ISOWeek(resolved.dates[2])[1] = Year(resolved.dates[2]) + 1

\* C23: on the authoritative path the monthly output is strictly ascending
\* with at most one date per calendar month, the latest open date of that
\* month in the calendar response, and has no date for a month without a
\* trading day in [start, end].
C23_MonthlyLastOfEachMonth ==
    (resolved.done /\ resolved.kind = "monthly" /\ ~FallbackUsed("monthly"))
    => LET out == resolved.dates
       IN  /\ Ascending(out)
           /\ \A i, j \in 1..Len(out) :
                i # j => YearMonth(out[i]) # YearMonth(out[j])
           /\ \A i \in 1..Len(out) :
                /\ out[i] \in OpenSet
                /\ \A d \in OpenSet :
                     YearMonth(d) = YearMonth(out[i]) => d <= out[i]
                /\ \E d \in OpenSet :
                     /\ rng.start <= d /\ d <= rng.end
                     /\ YearMonth(d) = YearMonth(out[i])

\* C24: on the fallback path the monthly output has at most one date per
\* calendar month and no date twice.
C24_MonthlyFallbackOnePerMonth ==
    (resolved.done /\ resolved.kind = "monthly" /\ FallbackUsed("monthly"))
    => \A i, j \in 1..Len(resolved.dates) :
         i # j => /\ resolved.dates[i] # resolved.dates[j]
                  /\ YearMonth(resolved.dates[i]) # YearMonth(resolved.dates[j])

\* C25: when the calendar call fails the weekly output has at most one
\* date per ISO week.
C25_WeeklyFallbackOnePerWeek ==
    (resolved.done /\ resolved.kind = "weekly" /\ calendar.err)
    => \A i, j \in 1..Len(resolved.dates) :
         i # j => MondayOf(resolved.dates[i]) # MondayOf(resolved.dates[j])

\* the output of the fallback generator of a resolver
FallbackOf(kind, r) ==
    IF kind = "weekly" THEN generateWeekDateRangeFallback(r.start, r.end)
    ELSE IF kind = "monthly" THEN generateMonthEndDatesFallback(r.start, r.end)
    ELSE generateDateRangeFallback(r.start, r.end)

\* C26: in daily, weekly and monthly resolution, when the calendar call
\* fails or returns no rows the resolver returns the output of its fallback
\* generator.
C26_FallbackOnErrorOrEmpty ==
    (resolved.done /\ (calendar.err \/ calendar.rows = <<>>))
    => resolved.dates = FallbackOf(resolved.kind, rng)

\* C27: every fallback generator returns, for every range, only dates of
\* [start, end] that are no Saturday or Sunday, and the empty list for an
\* inverted range.
C27_FallbackWeekdaysInRange ==
    (resolved.done /\ FallbackUsed(resolved.kind))
    => /\ \A d \in Range(resolved.dates) :
            /\ Weekday(d) # Saturday /\ Weekday(d) # Sunday
            /\ rng.start <= d /\ d <= rng.end
       /\ rng.start > rng.end => resolved.dates = <<>>

\* C27 witness: the daily fallback ran on a range with a weekend day and
\* returned the other days.
C27_Witness ==
    /\ resolved.done /\ resolved.kind = "daily" /\ calendar.err
    /\ resolved.dates # <<>>
    /\ Len(resolved.dates) < Len(DaysDesc(rng.start, rng.end))

\* ceil(n / b)
CeilDiv(n, b) == (n + b - 1) \div b

\* C28: for n records and batch size b >= 1 the chunks are consecutive
\* slices of at most b records, a batch insert of which no bulk insert
\* fails makes ceil(n / b) of them covering the input exactly once (the
\* daily insert hands over every record of each slice), and the loop ends.
C28_ChunksCoverInput ==
    /\ [](\A c \in 1..Len(inserts) :
            /\ inserts[c].from <= inserts[c].to
            /\ inserts[c].to - inserts[c].from + 1 <= batch.size
            /\ inserts[c].from = IF c = 1 THEN 1 ELSE inserts[c - 1].to + 1
            /\ batch.kind = "daily"
                 => /\ Len(inserts[c].rows)
                         = inserts[c].to - inserts[c].from + 1
                    /\ \A j \in 1..Len(inserts[c].rows) :
                         inserts[c].rows[j].k = inserts[c].from + j - 1)
    /\ [](batch.ret = "nil"
            => /\ Len(inserts) = CeilDiv(Len(input), batch.size)
               /\ input # <<>> => inserts[Len(inserts)].to = Len(input))
    /\ <>(batch.ret # "none")

\* C28 witness: three daily records with batch size 2 went out as a chunk
\* of two and a chunk of one.
C28_Witness ==
    /\ batch.kind = "daily" /\ batch.ret = "nil" /\ batch.size = 2
    /\ Len(input) = 3
    /\ Len(inserts) = 2
    /\ Len(inserts[2].rows) = 1

\* C29: in the weekly insert the rows of a chunk are the records of its
\* slice whose trade date and end date both parse, in order; a record with
\* a date that fails to parse is left out, and leaving it out is no error.
C29_WeeklyDropsUnparsed ==
    batch.kind = "weekly"
    => /\ \A c \in 1..Len(inserts) :
            LET rows == inserts[c].rows
            IN  /\ {rows[j].k : j \in 1..Len(rows)}
                     = {k \in inserts[c].from..inserts[c].to :
                          /\ ~ParseDate(input[k].trade).err
                          /\ ~ParseDate(input[k].end).err}
                /\ \A i, j \in 1..Len(rows) : i < j => rows[i].k < rows[j].k
       /\ batch.ret = "err" => ~inserts[Len(inserts)].ok

\* C29 witness: a weekly chunk of two records of which one has a date that
\* does not parse went out with the other record alone.
C29_Witness ==
    /\ batch.kind = "weekly"
    /\ \E c \in 1..Len(inserts) :
         /\ inserts[c].to = inserts[c].from + 1
         /\ Len(inserts[c].rows) = 1
         /\ inserts[c].ok

\* C30: in monthly mode a record whose trade date fails to parse is left
\* out: no row with the zero time as trade date is handed to a bulk insert.
C30_MonthlyDropsUnparsed ==
    batch.kind = "monthly"
    => \A c \in 1..Len(inserts) :
         \A j \in 1..Len(inserts[c].rows) :
           inserts[c].rows[j].trade_date # ZeroTime

\* C31: each unit is classified exactly once: it increments failedCount by
\* one if and only if its data call or its batch insert returned an error,
\* it never increments both counters, a unit whose data call returned has
\* incremented one of them when it returns, and no error of a unit cancels
\* the job.
C31_ClassifiedOnce ==
    /\ \A u \in UnitIds :
         /\ units[u].incS + units[u].incF <= 1
         /\ units[u].incF = 1 <=> units[u].err
         /\ (units[u].pc = "done" /\ units[u].calls = 1)
              => units[u].incS + units[u].incF = 1
    /\ (cancelled /\ pc \notin {"done", "panic"}) => callerCancelled

\* C34: while the task is running the stored progress, success_count and
\* failed_count never decrease from one write of the record to the next.
C34_StoredCountersMonotone ==
    [][(row.status = "running" /\ row'.status = "running")
         => /\ row'.progress >= row.progress
            /\ row'.success_count >= row.success_count
            /\ row'.failed_count >= row.failed_count]_vars

\* C35: a record with status completed has
\* success_count + failed_count = total_count.
C35_CompletedAccountsForAll ==
    row.status = "completed"
    => row.success_count + row.failed_count = row.total_count

\* HTTP requests sent for the job: the client of the job has retry = 0, so
\* each trading-calendar call and each data call sends one request
HttpRequests == calCalls + CallsStarted

\* ticks the job has taken from rateLimiter.C
TicksConsumed == ticksSent - (IF tick THEN 1 ELSE 0)

\* C36: the HTTP requests sent for a job, trading-calendar calls included,
\* never exceed the rate-limiter ticks the job has consumed.
C36_AllRequestsTicked == HttpRequests <= TicksConsumed

\* C38: every task record that was created eventually has status completed
\* and end_time set, in all four entry points, also when a later setup step
\* fails.
C38_EveryTaskCompletes ==
    row.exists ~> (row.status = "completed" /\ row.end_time)

\* C37: for every configuration that validateConfig accepts NewDataFetcher
\* computes a strictly positive ticker interval and builds the fetcher
\* without a panic.
C37_PositiveTickerInterval ==
    (cfg.valid = "accepted" /\ fetcher # NoFetcher)
    => /\ fetcher.built
       /\ fetcher.panic = ""
       /\ fetcher.interval.sign = 1
       /\ fetcher.interval.sixty > 0 \/ fetcher.interval.units > 0

\* the chunks whose bulk insert succeeded: their rows are in the store
Persisted == {c \in 1..Len(inserts) : inserts[c].ok}

\* C39: a batch insert is all or nothing: when the bulk insert of a chunk
\* failed and the insert returned the error, no row of the unit's response
\* is in the store.
C39_AllOrNothing ==
    batch.ret = "err" => \A c \in Persisted : inserts[c].rows = <<>>

\* C32: the response to a start carries the task identifier: a start that
\* was answered with code 0 has a task_id in its response, the task_id of
\* the record its job creates.
C32_StartReturnsTaskId ==
    \A i \in StartIds :
      (starts[i].response.sent /\ starts[i].response.code = 0)
      => /\ starts[i].response.task_id # NoTaskId
         /\ starts[i].task.exists
              => starts[i].response.task_id = starts[i].task.task_id

\* C33: any two starts generate distinct task_id values, also within one
\* clock second, and no start fails the creation of its record on a
\* collision.
C33_TaskIdsUnique ==
    /\ \A i, j \in StartIds :
         (i # j /\ starts[i].task.task_id # NoTaskId
                /\ starts[j].task.task_id # NoTaskId)
         => starts[i].task.task_id # starts[j].task.task_id
    /\ \A i \in StartIds : starts[i].gpc # "error"

\* the columns updateTaskProgress leaves alone
FrameOf(r) ==
    <<r.exists, r.id, r.task_id, r.status, r.total_count, r.start_date,
      r.end_date, r.end_time>>

\* C40: the step in which a job's unit runs and calls updateTaskProgress
\* writes at most the progress, success_count and failed_count of the row
\* with the job's id: that row keeps its task_id, status, total_count,
\* start_date, end_date and end_time, what the call writes is its progress
\* and the job's counters, and every other row is unchanged, also while
\* another job runs.  (A unit that returns before the call leaves the whole
\* table as it was.)
C40_UpdateFrame ==
    [][\A i \in StartIds :
         (starts[i].gpc = "update" /\ starts'[i].gpc = "final")
         => /\ DOMAIN tasks' = DOMAIN tasks
            /\ \A k \in DOMAIN tasks :
                 IF tasks[k].id = starts[i].task.id
                 THEN \/ tasks'[k] = tasks[k]
                      \/ /\ FrameOf(tasks'[k]) = FrameOf(tasks[k])
                         /\ tasks'[k].progress = 100
                         /\ tasks'[k].success_count = starts'[i].sc
                         /\ tasks'[k].failed_count = starts'[i].fc
                 ELSE tasks'[k] = tasks[k]]_vars

\* C40 witness: two jobs run; one, whose data call returned no rows, has
\* written its progress update, the row of the other, which is still before
\* its own update, is as it was saved.
C40_Witness ==
    \E i, j \in StartIds :
      /\ i # j
      /\ starts[i].gpc = "final"
      /\ starts[j].gpc = "update"
      /\ \E k, l \in DOMAIN tasks :
           /\ tasks[k].id = starts[i].task.id
           /\ tasks[k].progress = 100
           /\ tasks[k].success_count = 0
           /\ tasks[k].failed_count = 0
           /\ tasks[k].status = "running"
           /\ tasks[l].id = starts[j].task.id
           /\ tasks[l] = starts[j].task

====
